---- MODULE Spec2Model ----
(***************************************************************************)
(* Audit logger of the federated screener                                  *)
(* (src/federated_screener/blockchain/logger.py): BlockchainLogger with    *)
(* its queue, single worker thread and ledger, and MockBlockchainLogger.   *)
(*                                                                         *)
(* Spec      the operations of a constructed logger (producers calling     *)
(*           enqueue_training_metadata and stop, the worker thread, the    *)
(*           ledger mining transactions).                                  *)
(* SpecInit  construction: BlockchainLogger.__init__ and                   *)
(*           get_safe_blockchain_logger over every environment.            *)
(* SpecApp   the callers of the logger: the endpoints of src/api/main.py   *)
(*           with the audit throttle, and FederatedServer.evaluate_fn of   *)
(*           src/federated_screener/fl_server/server.py.                   *)
(* SpecElig  get_eligible_patients_for_drug of src/api/main.py over        *)
(*           populations, pages and page sizes.                            *)
(* SpecRule  _compute_eligibility of src/api/main.py over patients and     *)
(*           trial parameters.                                             *)
(* SpecObs   a constructed BlockchainLogger watched by a caller of flush,  *)
(*           health_check, verify_onchain_hash and                         *)
(*           compute_metadata_hash_static.                                 *)
(* SpecLive  Spec with the worker thread scheduled.                        *)
(* SpecWorker a constructed BlockchainLogger whose _start_worker and stop  *)
(*           are called at any moment.                                     *)
(* SpecAbi   BlockchainLogger against a configured node whose contract     *)
(*           answers the probe of any subset of the candidate interfaces.  *)
(* SpecMock  MockBlockchainLogger: log_event, enqueue_training_metadata    *)
(*           and get_audit_logs.                                           *)
(* SpecParams _build_trial_params_for_disease of src/api/main.py over      *)
(*           populations with comorbidity lists.                           *)
(* SpecTrain start_training, stop_training and reset_training of           *)
(*           src/api/main.py with the training threads.                    *)
(***************************************************************************)
EXTENDS Integers, Sequences, FiniteSets, TLC

VARIABLES
    env,              \* what _init_blockchain reads: modules, os.environ, the RPC node
    ctor,             \* how the object was asked for: constructor or factory, and its arguments
    handle,           \* class of the object the caller holds
    is_mock,          \* BlockchainLogger.is_mock / MockBlockchainLogger.is_mock
    queue,            \* BlockchainLogger._queue (FIFO of _QueueItem)
    logged_rounds,    \* BlockchainLogger._logged_rounds
    stop_worker,      \* BlockchainLogger._stop_worker (threading.Event)
    worker_pc,        \* position of the worker thread in _worker_loop/_process_item
    cur,              \* the item the worker holds
    attempt,          \* loop variable of _process_item
    backoff,          \* local variable of _process_item: seconds handed to time.sleep
    precheck_hit,     \* the on-chain pre-check found cur's round in this processing
    txs,              \* every transaction submitted to the node, in order
    ledger,           \* the contract's log array, in commit order
    mock_logs,        \* MockBlockchainLogger._logs (round numbers)
    mock_audit_logs,  \* MockBlockchainLogger._audit_logs (action and timestamp)
    calls,            \* per round, the well-formed enqueue calls made so far
    enqueued,         \* round numbers of the items put on the queue; an item's id is its index
    outcome,          \* per item id, where the item is in its life
    now,              \* what time.time() returns
    audit_last_logged,\* api/main.py _audit_last_logged: action key -> last epoch
    throttle_history, \* per key: was _should_log_action called, and when did it last return True
    is_training,      \* api/main.py is_training
    response,         \* the last operation of a caller and what it returned
    ops,              \* operations the callers have made
    training_logs,    \* FederatedServer.training_logs (round numbers)
    fl_calls,         \* the enqueue_training_metadata calls evaluate_fn has made
    elig_request,     \* arguments and database content of one eligibility request
    elig_result,      \* what get_eligible_patients_for_drug returned
    worker_threads,   \* threads running BlockchainLogger._worker_loop that are alive
    fn_names,         \* candidate whose names _get_contract bound (_log_fn_name, ...); 0: none
    runs,             \* threads started on run_training_simulation, in start order
    api_training_logs \* api/main.py training_logs (round numbers)

appVars == <<now, audit_last_logged, throttle_history, is_training, response, ops,
             training_logs, fl_calls>>

eligVars == <<elig_request, elig_result>>

runVars == <<worker_threads, fn_names, runs, api_training_logs>>

vars == <<env, ctor, handle, is_mock, queue, logged_rounds, stop_worker, worker_pc,
          cur, attempt, backoff, precheck_hit, txs, ledger, mock_logs, mock_audit_logs,
          calls, enqueued, outcome, appVars, eligVars, runVars>>

-----------------------------------------------------------------------------
(* Bounds and program constants *)

\* well-formed enqueue calls in one run (each creates at most one item)
MaxCalls == 2
\* retry_attempts the logger is constructed with
retry_attempts == 2
\* len(model_hash) < 8 is rejected
MinHashLen == 8
\* accuracy is held in ten-thousandths: 1.0
AccuracyOne == 10000

\* the round numbers the producers use
Rounds == {1, 2}
ItemIds == 1..MaxCalls

NoItem == [id |-> 0, round_number |-> 0, accuracy |-> 0, model_hash |-> "",
           timestamp |-> 0]

-----------------------------------------------------------------------------
(* Arguments of enqueue_training_metadata.  accuracy is a number given in   *)
(* ten-thousandths, or something that is no number.                         *)

Num(n) == [is_number |-> TRUE, e4 |-> n]
NotANumber == [is_number |-> FALSE, e4 |-> 0]

GoodAccuracy == Num(9234)
GoodHash == "deadbeefdeadbeef"

Call(r, acc, mh) == [round_number |-> r, accuracy |-> acc, model_hash |-> mh]

\* the calls the producers make: every round with good values, and one call for
\* each way of being malformed
Args == {Call(r, GoodAccuracy, GoodHash) : r \in {0} \cup Rounds}
        \cup {Call(1, acc, GoodHash) : acc \in {Num(AccuracyOne + 1), Num(-1), NotANumber}}
        \cup {Call(1, GoodAccuracy, "abc")}

\* lines 644-649, the three checks in their order; "" when all pass
ValidationError(a) ==
    IF a.round_number <= 0 THEN "invalid round"
    ELSE IF ~a.accuracy.is_number \/ ~(0 <= a.accuracy.e4 /\ a.accuracy.e4 <= AccuracyOne)
         THEN "invalid accuracy"
    ELSE IF Len(a.model_hash) < MinHashLen THEN "invalid model_hash"
    ELSE ""

WellFormed(a) == ValidationError(a) = ""

\* the calls that pass the validation of lines 643-649
WellFormedArgs == {a \in Args : WellFormed(a)}

Ret(ok, msg) == [accepted |-> ok, msg |-> msg]

-----------------------------------------------------------------------------
(* The metadata hash.  A dict is the sequence of its (key, value) pairs in   *)
(* insertion order; a digest is held as the text that was hashed, so two     *)
(* digests are equal exactly when the hashed texts are.                      *)

\* the accuracies k/10000, as k, whose double multiplied by 10000 is a double
\* below k (0.57 * 10000 is 5699.999999999999)
ShortProducts ==
    {3, 6, 12, 24, 29, 48, 58, 93, 96, 113, 116, 163, 169, 186, 192, 209,
     215, 226, 232, 249, 255, 321, 326, 338, 355, 372, 384, 389, 401, 418,
     430, 435, 447, 452, 464, 481, 493, 498, 510, 642, 647, 652, 676, 681,
     705, 710, 715, 739, 744, 768, 773, 778, 797, 802, 807, 831, 836, 841,
     860, 865, 870, 894, 899, 904, 923, 928, 933, 957, 962, 967, 986, 991,
     996, 1020, 1284, 1289, 1294, 1299, 1304, 1309, 1347, 1352, 1357, 1362,
     1367, 1410, 1415, 1420, 1425, 1430, 1473, 1478, 1483, 1488, 1493, 1536,
     1541, 1546, 1551, 1556, 1594, 1599, 1604, 1609, 1614, 1619, 1657, 1662,
     1667, 1672, 1677, 1682, 1720, 1725, 1730, 1735, 1740, 1745, 1783, 1788,
     1793, 1798, 1803, 1808, 1846, 1851, 1856, 1861, 1866, 1871, 1909, 1914,
     1919, 1924, 1929, 1934, 1972, 1977, 1982, 1987, 1992, 2035, 2040, 2045,
     2563, 2568, 2573, 2578, 2583, 2588, 2593, 2598, 2603, 2608, 2613, 2618,
     2689, 2694, 2699, 2704, 2709, 2714, 2719, 2724, 2729, 2734, 2739, 2815,
     2820, 2825, 2830, 2835, 2840, 2845, 2850, 2855, 2860, 2865, 2941, 2946,
     2951, 2956, 2961, 2966, 2971, 2976, 2981, 2986, 2991, 3067, 3072, 3077,
     3082, 3087, 3092, 3097, 3102, 3107, 3112, 3117, 3188, 3193, 3198, 3203,
     3208, 3213, 3218, 3223, 3228, 3233, 3238, 3243, 3314, 3319, 3324, 3329,
     3334, 3339, 3344, 3349, 3354, 3359, 3364, 3440, 3445, 3450, 3455, 3460,
     3465, 3470, 3475, 3480, 3485, 3490, 3566, 3571, 3576, 3581, 3586, 3591,
     3596, 3601, 3606, 3611, 3616, 3692, 3697, 3702, 3707, 3712, 3717, 3722,
     3727, 3732, 3737, 3742, 3813, 3818, 3823, 3828, 3833, 3838, 3843, 3848,
     3853, 3858, 3863, 3868, 3939, 3944, 3949, 3954, 3959, 3964, 3969, 3974,
     3979, 3984, 3989, 4065, 4070, 4075, 4080, 4085, 4090, 4095, 5005, 5015,
     5025, 5035, 5045, 5055, 5065, 5075, 5085, 5095, 5105, 5126, 5136, 5146,
     5156, 5166, 5176, 5186, 5196, 5206, 5216, 5226, 5236, 5257, 5267, 5277,
     5287, 5297, 5307, 5317, 5327, 5337, 5347, 5357, 5378, 5388, 5398, 5408,
     5418, 5428, 5438, 5448, 5458, 5468, 5478, 5509, 5519, 5529, 5539, 5549,
     5559, 5569, 5579, 5589, 5599, 5609, 5630, 5640, 5650, 5660, 5670, 5680,
     5690, 5700, 5710, 5720, 5730, 5751, 5761, 5771, 5781, 5791, 5801, 5811,
     5821, 5831, 5841, 5851, 5861, 5882, 5892, 5902, 5912, 5922, 5932, 5942,
     5952, 5962, 5972, 5982, 6003, 6013, 6023, 6033, 6043, 6053, 6063, 6073,
     6083, 6093, 6103, 6134, 6144, 6154, 6164, 6174, 6184, 6194, 6204, 6214,
     6224, 6234, 6255, 6265, 6275, 6285, 6295, 6305, 6315, 6325, 6335, 6345,
     6355, 6376, 6386, 6396, 6406, 6416, 6426, 6436, 6446, 6456, 6466, 6476,
     6486, 6507, 6517, 6527, 6537, 6547, 6557, 6567, 6577, 6587, 6597, 6607,
     6628, 6638, 6648, 6658, 6668, 6678, 6688, 6698, 6708, 6718, 6728, 6759,
     6769, 6779, 6789, 6799, 6809, 6819, 6829, 6839, 6849, 6859, 6880, 6890,
     6900, 6910, 6920, 6930, 6940, 6950, 6960, 6970, 6980, 7001, 7011, 7021,
     7031, 7041, 7051, 7061, 7071, 7081, 7091, 7101, 7111, 7132, 7142, 7152,
     7162, 7172, 7182, 7192, 7202, 7212, 7222, 7232, 7253, 7263, 7273, 7283,
     7293, 7303, 7313, 7323, 7333, 7343, 7353, 7384, 7394, 7404, 7414, 7424,
     7434, 7444, 7454, 7464, 7474, 7484, 7505, 7515, 7525, 7535, 7545, 7555,
     7565, 7575, 7585, 7595, 7605, 7626, 7636, 7646, 7656, 7666, 7676, 7686,
     7696, 7706, 7716, 7726, 7736, 7757, 7767, 7777, 7787, 7797, 7807, 7817,
     7827, 7837, 7847, 7857, 7878, 7888, 7898, 7908, 7918, 7928, 7938, 7948,
     7958, 7968, 7978, 8009, 8019, 8029, 8039, 8049, 8059, 8069, 8079, 8089,
     8099, 8109, 8130, 8140, 8150, 8160, 8170, 8180, 8190}

\* line 551 and line 709: int(accuracy * 10000), int cutting the fraction off
AccuracyScaled(e4) == IF e4 \in ShortProducts THEN e4 - 1 ELSE e4

HasKey(d, k) == \E i \in DOMAIN d : d[i][1] = k

\* d[k] of a dict that has k
Lookup(d, k) == d[CHOOSE i \in DOMAIN d : d[i][1] = k][2]

\* hashlib.sha256(text).hexdigest()
Sha256(text) == [sha256 |-> text]

\* the hashed text keeping the order of the keys of the input
CanonicalUnsorted(metadata) ==
    SelectSeq(metadata, LAMBDA kv : kv[1] \in {"round_number", "accuracy_scaled",
                                               "model_hash", "timestamp"})

\* lines 724-733: json.dumps of the four fields with sort_keys=True
Canonical(metadata) ==
    <<<<"accuracy_scaled", Lookup(metadata, "accuracy_scaled")>>,
      <<"model_hash", Lookup(metadata, "model_hash")>>,
      <<"round_number", Lookup(metadata, "round_number")>>,
      <<"timestamp", Lookup(metadata, "timestamp")>>>>

\* compute_metadata_hash_static, lines 719-734, of a dict that has the four keys
ComputeMetadataHashStatic(metadata) == Sha256(Canonical(metadata))

\* lines 551-557: the metadata _send_tx builds for an item
Metadata(item) ==
    [round_number |-> item.round_number,
     accuracy_scaled |-> AccuracyScaled(item.accuracy),
     model_hash |-> item.model_hash,
     timestamp |-> item.timestamp]

\* the dict, as compute_metadata_hash_static gets it at line 559
ItemMetadata(metadata) ==
    <<<<"round_number", metadata.round_number>>,
      <<"accuracy_scaled", metadata.accuracy_scaled>>,
      <<"model_hash", metadata.model_hash>>,
      <<"timestamp", metadata.timestamp>>>>

\* lines 559 and 597-602: the arguments of the contract call, which the
\* contract stores when the transaction is mined
LogEntry(metadata) ==
    [round_number |-> metadata.round_number,
     accuracy |-> metadata.accuracy_scaled,
     metadata_hash |-> ComputeMetadataHashStatic(ItemMetadata(metadata)),
     timestamp |-> metadata.timestamp]

-----------------------------------------------------------------------------
(* The state of the callers before any request *)

\* time.time() when the process starts: seconds since the epoch, far above
\* every cooldown
StartTime == 1000

\* the drugs whose eligibility is screened
Drugs == {"DrugA", "DrugB"}

\* line 603: f"ELIGIBILITY_SCREEN_{drug_name}"
EligKey(drug) == IF drug = "DrugA" THEN "ELIGIBILITY_SCREEN_DrugA"
                 ELSE "ELIGIBILITY_SCREEN_DrugB"

\* the action keys the endpoints hand to the throttle
Keys == {"LOGIN_FAILED", "USER_LOGIN", "DASHBOARD_VIEWED", "PATIENTS_VIEWED",
         "TRAINING_STARTED"} \cup {EligKey(d) : d \in Drugs}

NoResponse == [op |-> "none", status |-> "none", action |-> "", key |-> "",
               cooldown |-> 0, mode |-> "none", fault |-> FALSE,
               consulted |-> FALSE, should_log |-> FALSE, raised |-> FALSE]

\* api/main.py lines 64-65 and 76, FederatedServer.__init__ line 14
AppFresh ==
    /\ now = StartTime
    /\ audit_last_logged = [k \in Keys |-> 0]
    /\ throttle_history = [k \in Keys |-> [called |-> FALSE, last_true |-> 0]]
    /\ is_training = FALSE
    /\ response = NoResponse
    /\ ops = 0
    /\ training_logs = <<>>
    /\ fl_calls = <<>>
    /\ runs = <<>>
    /\ api_training_logs = <<>>

NoRequest == [none |-> TRUE]

EligIdle == elig_request = NoRequest /\ elig_result = NoRequest

NoCaller == AppFresh /\ EligIdle

-----------------------------------------------------------------------------
(* Construction *)

Envs == [web3 : BOOLEAN,             \* web3 and eth_account import
         is_local : BOOLEAN,         \* BLOCKCHAIN_LOCAL
         infura_id : BOOLEAN,        \* INFURA_PROJECT_ID is set
         rpc_url : BOOLEAN,          \* BLOCKCHAIN_RPC is not set to the empty string
         connected : BOOLEAN,        \* w3.is_connected()
         private_key : BOOLEAN,      \* PRIVATE_KEY is set
         node_accounts : BOOLEAN,    \* the node has an unlocked account
         contract_address : BOOLEAN, \* CONTRACT_ADDRESS is set
         callable : SUBSET (1..3)]   \* candidate ABIs whose getLogCount call succeeds

\* _get_contract adopting the last candidate whose probe succeeds
ResolveContractLast(e) ==
    IF e.callable = {} THEN 0
    ELSE CHOOSE i \in e.callable : \A j \in e.callable : i >= j

\* _get_contract: the first candidate, in list order, whose probe succeeds; 0 when none
ResolveContract(e) ==
    IF e.callable = {} THEN 0
    ELSE CHOOSE i \in e.callable : \A j \in e.callable : i <= j

\* _init_blockchain: the error it raises, "" when it returns
InitError(e) ==
    IF ~e.web3 THEN "web3 or eth_account not available"
    ELSE IF ~e.is_local /\ ~e.infura_id THEN "INFURA_PROJECT_ID not set"
    ELSE IF e.is_local /\ ~e.rpc_url THEN "RPC provider URL not configured"
    ELSE IF ~e.connected THEN "unable to connect to RPC"
    ELSE IF ~e.private_key /\ ~e.is_local THEN "PRIVATE_KEY not set"
    ELSE IF ~e.private_key /\ ~e.node_accounts THEN "unable to use node account"
    ELSE IF ~e.contract_address THEN "CONTRACT_ADDRESS not set"
    ELSE IF ResolveContract(e) = 0 THEN "contract ABI mismatch"
    ELSE ""

\* line 293: the initialization error is raised again
ReraisesStrictAlways(strict, allow_mock_fallback) == strict

Reraises(strict, allow_mock_fallback) == strict /\ ~allow_mock_fallback

Built(h, m, w) == [handle |-> h, is_mock |-> m, worker_pc |-> w]

\* BlockchainLogger.__init__: what the caller gets
NewBlockchainLogger(e, strict, allow_mock_fallback) ==
    IF InitError(e) = "" THEN Built("BlockchainLogger", FALSE, "loop")
    ELSE IF Reraises(strict, allow_mock_fallback) THEN Built("raised", FALSE, "none")
    ELSE Built("BlockchainLogger", TRUE, "none")

\* get_safe_blockchain_logger returning bl itself, also in mock mode
SafeHandleKeepsWrapper(bl) ==
    IF bl.handle = "raised" THEN Built("MockBlockchainLogger", TRUE, "none") ELSE bl

\* get_safe_blockchain_logger, lines 760-767, given what the constructor did
SafeHandle(bl) ==
    IF bl.handle = "raised" \/ bl.is_mock
    THEN Built("MockBlockchainLogger", TRUE, "none")
    ELSE bl

Direct(strict, allow_mock_fallback) ==
    [strict |-> strict, allow_mock_fallback |-> allow_mock_fallback, via |-> "BlockchainLogger"]
Factory(strict) ==
    [strict |-> strict, allow_mock_fallback |-> TRUE, via |-> "get_safe_blockchain_logger"]
NotAsked == [strict |-> FALSE, allow_mock_fallback |-> FALSE, via |-> "none"]

Obtain(e, c) ==
    IF c.via = "get_safe_blockchain_logger"
    THEN SafeHandle(NewBlockchainLogger(e, c.strict, TRUE))
    ELSE NewBlockchainLogger(e, c.strict, c.allow_mock_fallback)

\* line 289: __init__ calls _start_worker once _init_blockchain has returned
WorkerThreads(bl) == IF bl.worker_pc = "loop" THEN 1 ELSE 0

\* lines 462-464: _get_contract binds the names of the candidate it adopted;
\* an object whose initialization failed before or in _get_contract has none
FnNames(e, bl) ==
    IF bl.handle = "BlockchainLogger" /\ ~bl.is_mock THEN ResolveContract(e) ELSE 0

\* lines 271-284 and MockBlockchainLogger.__init__: the fields before any call
FreshFields ==
    /\ queue = <<>>
    /\ logged_rounds = {}
    /\ stop_worker = FALSE
    /\ cur = NoItem
    /\ attempt = 0
    /\ backoff = 0
    /\ precheck_hit = FALSE
    /\ txs = <<>>
    /\ ledger = <<>>
    /\ mock_logs = <<>>
    /\ mock_audit_logs = <<>>
    /\ calls = [r \in Rounds |-> 0]
    /\ enqueued = <<>>
    /\ outcome = [i \in ItemIds |-> "none"]

UnchangedFields ==
    UNCHANGED <<queue, logged_rounds, stop_worker, cur, attempt, backoff, precheck_hit, txs,
                ledger, mock_logs, mock_audit_logs, calls, enqueued, outcome,
                appVars, eligVars, runs, api_training_logs>>

InitUnbuilt ==
    /\ env \in Envs
    /\ ctor = NotAsked
    /\ handle = "none"
    /\ is_mock = FALSE
    /\ worker_pc = "none"
    /\ worker_threads = 0
    /\ fn_names = 0
    /\ FreshFields
    /\ NoCaller

Construct(c) ==
    /\ handle = "none"
    /\ ctor' = c
    /\ handle' = Obtain(env, c).handle
    /\ is_mock' = Obtain(env, c).is_mock
    /\ worker_pc' = Obtain(env, c).worker_pc
    /\ worker_threads' = WorkerThreads(Obtain(env, c))
    /\ fn_names' = FnNames(env, Obtain(env, c))
    /\ UNCHANGED env
    /\ UnchangedFields

NewLogger == \E s \in BOOLEAN, a \in BOOLEAN : Construct(Direct(s, a))

GetSafeBlockchainLogger == \E s \in BOOLEAN : Construct(Factory(s))

NextInit == NewLogger \/ GetSafeBlockchainLogger

SpecInit == InitUnbuilt /\ [][NextInit]_vars

-----------------------------------------------------------------------------
(* A constructed logger: the producers' calls *)

IsReal == handle = "BlockchainLogger" /\ ~is_mock
IsWrappedMock == handle = "BlockchainLogger" /\ is_mock
IsMockObject == handle = "MockBlockchainLogger"

RECURSIVE SumOver(_, _)
SumOver(f, S) == IF S = {} THEN 0
                 ELSE LET x == CHOOSE y \in S : TRUE IN f[x] + SumOver(f, S \ {x})

CallsMade == SumOver(calls, Rounds)

ItemsMade == Len(enqueued)

CountCall(a) ==
    calls' = IF WellFormed(a)
             THEN [calls EXCEPT ![a.round_number] = @ + 1]
             ELSE calls

\* line 655
FastPathDuplicate(r) == r \in logged_rounds

\* BlockchainLogger.enqueue_training_metadata in real mode, lines 643-661:
\* the pair it returns
ReturnsReal(a) ==
    IF ValidationError(a) # "" THEN Ret(FALSE, ValidationError(a))
    ELSE IF FastPathDuplicate(a.round_number) THEN Ret(FALSE, "duplicate")
    ELSE Ret(TRUE, "None")

\* the item put in front of the waiting ones
QueuePutFirst(q, item) == <<item>> \o q

\* line 659: queue.Queue.put
QueuePut(q, item) == Append(q, item)

\* lines 651-661: the item is put on the queue exactly when the call accepts
EnqueueReal(a) ==
    /\ IsReal
    /\ CountCall(a)
    /\ IF ReturnsReal(a).accepted
       THEN /\ queue' = QueuePut(queue, [id |-> ItemsMade + 1,
                                         round_number |-> a.round_number,
                                         accuracy |-> a.accuracy.e4,
                                         model_hash |-> a.model_hash,
                                         timestamp |-> now])
            /\ enqueued' = Append(enqueued, a.round_number)
            /\ outcome' = [outcome EXCEPT ![ItemsMade + 1] = "queued"]
       ELSE UNCHANGED <<queue, enqueued, outcome>>
    /\ UNCHANGED <<mock_logs, mock_audit_logs>>

\* BlockchainLogger.enqueue_training_metadata in mock mode, lines 634-641
ReturnsWrappedMock(a) == Ret(TRUE, "mock_tx")

\* lines 634-641 with MockBlockchainLogger.enqueue, lines 123-130
EnqueueWrappedMock(a) ==
    /\ IsWrappedMock
    /\ Len(mock_logs) < MaxCalls
    /\ CountCall(a)
    /\ mock_logs' = Append(mock_logs, a.round_number)
    /\ UNCHANGED <<queue, enqueued, outcome, mock_audit_logs>>

\* MockBlockchainLogger.enqueue_training_metadata, lines 132-162: the only
\* failure is the f-string format of an accuracy that is no number (line 146)
ReturnsMockObject(a) ==
    IF a.accuracy.is_number THEN Ret(TRUE, "0x") ELSE Ret(FALSE, "error")

\* lines 143-151 and 168-176: the action and the timestamp of an audit entry
AuditEntry(action, ts) == [action |-> action, timestamp |-> ts]

\* lines 134-162: both lists are appended to unless the format raised
EnqueueMockObject(a) ==
    /\ IsMockObject
    /\ Len(mock_logs) < MaxCalls
    /\ CountCall(a)
    /\ IF ReturnsMockObject(a).accepted
       THEN /\ mock_logs' = Append(mock_logs, a.round_number)
            /\ mock_audit_logs' = Append(mock_audit_logs, AuditEntry("TRAINING_ROUND", now))
       ELSE UNCHANGED <<mock_logs, mock_audit_logs>>
    /\ UNCHANGED <<queue, enqueued, outcome>>

\* what enqueue_training_metadata(a) returns to its caller in this state
Returns(a) ==
    IF IsReal THEN ReturnsReal(a)
    ELSE IF IsWrappedMock THEN ReturnsWrappedMock(a)
    ELSE ReturnsMockObject(a)

EnqueueCall(a) ==
    /\ WellFormed(a) => CallsMade < MaxCalls
    /\ \/ EnqueueReal(a)
       \/ EnqueueWrappedMock(a)
       \/ EnqueueMockObject(a)
    /\ UNCHANGED <<env, ctor, handle, is_mock, logged_rounds, stop_worker, worker_pc,
                   cur, attempt, backoff, precheck_hit, txs, ledger>>

\* a producer calling enqueue_training_metadata; a call that changes nothing is
\* a stuttering step
EnqueueTrainingMetadata(a) ==
    /\ EnqueueCall(a)
    /\ UNCHANGED <<appVars, eligVars, runVars>>
    /\ vars' # vars

\* BlockchainLogger.stop, lines 493-499
Stop ==
    /\ handle = "BlockchainLogger"
    /\ stop_worker' = IF is_mock THEN stop_worker ELSE TRUE
    /\ UNCHANGED <<env, ctor, handle, is_mock, queue, logged_rounds, worker_pc, cur,
                   attempt, backoff, precheck_hit, txs, ledger, mock_logs, mock_audit_logs,
                   calls, enqueued, outcome, appVars, eligVars, runVars>>

-----------------------------------------------------------------------------
(* The worker thread *)

WorkerIdle == UNCHANGED <<cur, attempt, backoff, precheck_hit, outcome, logged_rounds, txs, ledger>>

Unshared == UNCHANGED <<env, ctor, handle, is_mock, stop_worker, mock_logs,
                        mock_audit_logs, calls, enqueued, appVars, eligVars, fn_names, runs,
                api_training_logs>>

Untouched == Unshared /\ UNCHANGED worker_threads

\* line 503: the loop condition; the thread ends when the event is set
WorkerLoop ==
    /\ worker_pc = "loop"
    /\ worker_pc' = IF stop_worker THEN "exited" ELSE "get"
    /\ worker_threads' = IF stop_worker THEN worker_threads - 1 ELSE worker_threads
    /\ UNCHANGED queue
    /\ WorkerIdle /\ Unshared

\* line 505: queue.get returns the head
WorkerGet ==
    /\ worker_pc = "get"
    /\ queue # <<>>
    /\ cur' = Head(queue)
    /\ queue' = Tail(queue)
    /\ outcome' = [outcome EXCEPT ![Head(queue).id] = "active"]
    /\ worker_pc' = "process"
    /\ UNCHANGED <<attempt, backoff, precheck_hit, logged_rounds, txs, ledger>>
    /\ Untouched

\* lines 506-507: queue.get times out on an empty queue
WorkerGetEmpty ==
    /\ worker_pc = "get"
    /\ queue = <<>>
    /\ worker_pc' = "loop"
    /\ UNCHANGED queue
    /\ WorkerIdle /\ Untouched

\* the worker thread dying on a failed item
AfterItemDies(how) == IF how \in {"exhausted", "raised"} THEN "exited" ELSE "loop"

\* lines 509-515: whatever _process_item did, task_done and back to the loop
AfterItem(how) == "loop"

\* _process_item returns or raises: the item is finished
Finish(how) ==
    /\ outcome' = [outcome EXCEPT ![cur.id] = how]
    /\ cur' = NoItem
    /\ attempt' = 0
    /\ backoff' = 0
    /\ precheck_hit' = FALSE
    /\ worker_pc' = AfterItem(how)

\* the local check never finding the round
LocalDuplicateNever(r) == FALSE

\* line 520
LocalDuplicate(r) == r \in logged_rounds

\* lines 520-524: the local duplicate check, then the first attempt
WorkerProcessItem ==
    /\ worker_pc = "process"
    /\ IF LocalDuplicate(cur.round_number)
       THEN Finish("skipped")
       ELSE /\ attempt' = 1
            /\ worker_pc' = "send"
            /\ UNCHANGED <<cur, backoff, precheck_hit, outcome>>
    /\ UNCHANGED <<queue, logged_rounds, txs, ledger>>
    /\ Untouched

\* the exponent not reduced by one
BackoffDoubled(k) == 2 ^ k

\* line 544: 2 ** (attempt - 1)
Backoff(k) == 2 ^ (k - 1)

\* the budget test off by one
LastAttemptLate(k) == k > retry_attempts

\* line 541
LastAttempt(k) == k >= retry_attempts

\* lines 539-545: an attempt raised
AttemptFailed(hit) ==
    IF LastAttempt(attempt)
    THEN Finish("exhausted")
    ELSE /\ worker_pc' = "backoff"
         /\ backoff' = Backoff(attempt)
         /\ precheck_hit' = hit
         /\ UNCHANGED <<cur, attempt, outcome>>

\* lines 563-565: what the contract returns for its log k (counted from 1
\* here)
OnChain(k) == LogEntry(ledger[k])

\* lines 562-573: the pre-check finds the round in the last ledger entry; the
\* RuntimeError it raises is caught by its own except clause
OnChainDuplicate(r, reads_ok) ==
    reads_ok /\ ledger # <<>> /\ OnChain(Len(ledger)).round_number = r

\* _send_tx, lines 548-626, as called at line 526: the pre-check (reads_ok:
\* its read of the ledger returns), then the transaction is built and sent
\* (sent), or a call to the node raises
SendTx(reads_ok, sent) ==
    /\ worker_pc = "send"
    /\ LET hit == OnChainDuplicate(cur.round_number, reads_ok) IN
        /\ logged_rounds' = IF hit THEN logged_rounds \cup {cur.round_number}
                            ELSE logged_rounds
        /\ IF sent
           THEN /\ txs' = Append(txs, [id |-> cur.id, round_number |-> cur.round_number,
                                       status |-> "awaiting", metadata |-> Metadata(cur),
                                       accuracy |-> cur.accuracy])
                /\ worker_pc' = "receipt"
                /\ precheck_hit' = (precheck_hit \/ hit)
                /\ UNCHANGED <<cur, attempt, backoff, outcome>>
           ELSE /\ UNCHANGED txs
                /\ AttemptFailed(precheck_hit \/ hit)
    /\ UNCHANGED <<queue, ledger>>
    /\ Untouched

WorkerSendTx == \E reads_ok \in BOOLEAN, sent \in BOOLEAN : SendTx(reads_ok, sent)

\* a reverted receipt handled like a raised attempt
RetriesAlsoReverted(status) == status \in {"timed_out", "reverted"}

\* lines 529-545: only an exception (the receipt wait timing out) is retried
Retries(status) == status = "timed_out"

SetStatus(i, status) == [txs EXCEPT ![i].status = status]

\* every receipt taken for a confirmation
StatusAny(status) == status # "timed_out"

\* line 531: receipt.get("status") == 1
StatusOne(status) == status = "success"

\* lines 529-537: wait_for_transaction_receipt returns a receipt with status 1,
\* returns one with another status, or raises
WorkerReceipt ==
    /\ worker_pc = "receipt"
    /\ \E status \in {"success", "reverted", "timed_out"} :
        /\ txs' = SetStatus(Len(txs), status)
        /\ ledger' = IF status = "success" THEN Append(ledger, txs[Len(txs)].metadata)
                      ELSE ledger
        /\ IF StatusOne(status)
           THEN /\ logged_rounds' = logged_rounds \cup {cur.round_number}
                /\ Finish("confirmed")
           ELSE IF Retries(status)
           THEN /\ AttemptFailed(precheck_hit)
                /\ UNCHANGED logged_rounds
           ELSE /\ Finish("reverted")
                /\ UNCHANGED logged_rounds
    /\ UNCHANGED queue
    /\ Untouched

\* the loop trying the same attempt again
NextAttemptSame(k) == k

\* line 524: the next value of range(1, retry_attempts + 1)
NextAttempt(k) == k + 1

\* line 545 returns from time.sleep: the next iteration of the for loop
WorkerBackoffOver ==
    /\ worker_pc = "backoff"
    /\ attempt' = NextAttempt(attempt)
    /\ worker_pc' = "send"
    /\ UNCHANGED <<cur, backoff, precheck_hit, outcome, queue, logged_rounds, txs, ledger>>
    /\ Untouched

\* lines 511-513: an exception leaves _process_item (from its except clause,
\* lines 540-545, the only statements of the loop that no try covers)
WorkerItemRaises ==
    /\ worker_pc = "backoff"
    /\ Finish("raised")
    /\ UNCHANGED <<queue, logged_rounds, txs, ledger>>
    /\ Untouched

TimedOut == {i \in DOMAIN txs : txs[i].status = "timed_out"}

\* the node mines a transaction whose receipt the worker stopped waiting for
\* (the oldest one first); one that reverts then leaves nothing the logger reads
LedgerMine ==
    /\ \E i \in TimedOut :
        /\ \A j \in TimedOut : i <= j
        /\ txs' = SetStatus(i, "success")
        /\ ledger' = Append(ledger, txs[i].metadata)
    /\ UNCHANGED <<queue, logged_rounds, worker_pc, cur, attempt, backoff, precheck_hit, outcome>>
    /\ Untouched

-----------------------------------------------------------------------------
(* The specification of a constructed logger *)

LocalNode == [web3 |-> TRUE, is_local |-> TRUE, infura_id |-> FALSE, rpc_url |-> TRUE,
              connected |-> TRUE, private_key |-> FALSE, node_accounts |-> TRUE,
              contract_address |-> TRUE, callable |-> {1}]

NodeDown == [LocalNode EXCEPT !.connected = FALSE]

\* the logger of api/main.py (the factory) with the node up or down, and the one
\* of test_setup.py (the constructor) with the node down
Init ==
    /\ \E e \in {LocalNode, NodeDown}, c \in {Factory(FALSE), Direct(FALSE, TRUE)} :
        /\ e = LocalNode => c = Factory(FALSE)
        /\ env = e
        /\ ctor = c
        /\ handle = Obtain(e, c).handle
        /\ is_mock = Obtain(e, c).is_mock
        /\ worker_pc = Obtain(e, c).worker_pc
        /\ worker_threads = WorkerThreads(Obtain(e, c))
        /\ fn_names = FnNames(e, Obtain(e, c))
    /\ FreshFields
    /\ NoCaller

Producer == \E a \in Args : EnqueueTrainingMetadata(a)

Worker ==
    \/ WorkerLoop
    \/ WorkerGet
    \/ WorkerGetEmpty
    \/ WorkerProcessItem
    \/ WorkerSendTx
    \/ WorkerReceipt
    \/ WorkerBackoffOver
    \/ WorkerItemRaises

Next == Producer \/ Stop \/ Worker \/ LedgerMine

Spec == Init /\ [][Next]_vars

-----------------------------------------------------------------------------
(* What the properties speak of *)

TxsOfRound(r) == {i \in DOMAIN txs : txs[i].round_number = r}
TxsOfItem(id) == {i \in DOMAIN txs : txs[i].id = id}
MockEntries(r) == {i \in DOMAIN mock_logs : mock_logs[i] = r}

\* records committed for round r: confirmed ledger transactions, or training-log
\* entries of the mock
Committed(r) ==
    IF is_mock THEN Cardinality(MockEntries(r))
    ELSE Cardinality({i \in TxsOfRound(r) : txs[i].status = "success"})

\* nothing is waiting and the worker holds no item
Quiescent == queue = <<>> /\ cur = NoItem

\* every submitted transaction was confirmed at its receipt wait
LedgerConfirms ==
    /\ \A i \in DOMAIN txs : txs[i].status \in {"awaiting", "success"}
    /\ \A id \in ItemIds : /\ Cardinality(TxsOfItem(id)) <= 1
                           /\ outcome[id] \notin {"reverted", "exhausted", "raised"}

Queued(r) == \E i \in DOMAIN queue : queue[i].round_number = r

\* the step ends the processing of item id
Finishes(id) == outcome[id] = "active" /\ outcome'[id] # "active"

\* the step is a receipt wait returning a receipt whose status is not 1
RevertReported ==
    /\ worker_pc = "receipt"
    /\ txs[Len(txs)].status = "awaiting"
    /\ Len(txs') = Len(txs)
    /\ txs'[Len(txs)].status = "reverted"

-----------------------------------------------------------------------------
(* Properties of a constructed logger (Spec) *)

\* C1: when the ledger confirms what is submitted (and the mock commits at once),
\* a round enqueued twice has, once nothing is left to process, exactly one
\* committed record.
C1_EnqueueIdempotent ==
    \A r \in Rounds :
        (Quiescent /\ LedgerConfirms /\ calls[r] = 2) => Committed(r) = 1

\* C2: for every round, at most one transaction for it was ever submitted to the
\* ledger by the worker.
C2_RoundSubmittedAtMostOnce ==
    \A r \in Rounds : Cardinality(TxsOfRound(r)) <= 1

\* C3: a well-formed enqueue call on the real logger for a round that is already
\* logged or already waiting in the queue returns (False, "duplicate") and leaves
\* the queue as it was.
C3_DuplicateAcknowledged ==
    [][\A a \in Args :
          (/\ EnqueueTrainingMetadata(a)
           /\ IsReal
           /\ WellFormed(a)
           /\ (a.round_number \in logged_rounds \/ Queued(a.round_number)))
          => (Returns(a) = Ret(FALSE, "duplicate") /\ queue' = queue)]_vars

\* C4: on every backend, a malformed enqueue call returns accepted = False and
\* adds nothing to the queue, to the mock's logs or to the ledger.
C4_MalformedRejected ==
    [][\A a \in Args :
          (EnqueueTrainingMetadata(a) /\ ~WellFormed(a))
          => (/\ ~Returns(a).accepted
              /\ UNCHANGED <<queue, mock_logs, mock_audit_logs, txs, ledger>>)]_vars

C7_SecondItemNeverSubmitted ==
    \A a \in ItemIds : \A b \in ItemIds :
        (/\ a < b
         /\ b <= Len(enqueued)
         /\ enqueued[a] = enqueued[b]
         /\ outcome[a] = "confirmed")
        => TxsOfItem(b) = {}

\* C7 witness: the same round was put on the queue twice, the first item was
\* confirmed and the second was skipped.
C7_Witness ==
    \E a \in ItemIds : \E b \in ItemIds :
        /\ a < b
        /\ b <= Len(enqueued)
        /\ enqueued[a] = enqueued[b]
        /\ outcome[a] = "confirmed"
        /\ outcome[b] = "skipped"

\* C8: a failed item (exhausted, reverted, or an exception leaving _process_item)
\* leaves the worker alive at the top of its loop and the queued items in place;
\* the worker thread ends only after stop; and whatever failed before, a
\* well-formed enqueue call is answered with acceptance or "duplicate", never
\* with a failure.
C8_FailuresIsolated ==
    [][/\ outcome' # outcome
          => \A id \in ItemIds :
                (Finishes(id) /\ outcome'[id] \in {"exhausted", "reverted", "raised"})
                => (worker_pc' = "loop" /\ queue' = queue)
       /\ worker_pc' = "exited" => stop_worker'
       /\ (IsReal /\ calls' # calls)
          => \A a \in WellFormedArgs :
                calls'[a.round_number] > calls[a.round_number]
                => (Returns(a).accepted \/ Returns(a).msg = "duplicate")
      ]_vars

\* C8 witness: an item failed and an item queued after it was then confirmed.
C8_Witness ==
    \E a \in ItemIds : \E b \in ItemIds :
        /\ a < b
        /\ outcome[a] \in {"exhausted", "raised"}
        /\ outcome[b] = "confirmed"

-----------------------------------------------------------------------------
(* Properties of construction (SpecInit) *)

ConstructedBy(via) == handle # "none" /\ ctor.via = via

FellBack == handle = "BlockchainLogger" /\ is_mock /\ worker_pc = "none"

C10_SafeLoggerNeverRaises ==
    ConstructedBy("get_safe_blockchain_logger")
    => (/\ handle # "raised"
        /\ InitError(env) = "" => (handle = "BlockchainLogger" /\ ~is_mock
                                   /\ worker_pc = "loop")
        /\ InitError(env) # "" => (handle = "MockBlockchainLogger" /\ is_mock))

\* C10 witness: the factory was called with strict true in an environment where
\* initialization fails, and returned a mock.
C10_Witness ==
    /\ ConstructedBy("get_safe_blockchain_logger")
    /\ ctor.strict
    /\ InitError(env) # ""
    /\ handle = "MockBlockchainLogger"

-----------------------------------------------------------------------------
(* The callers of the logger: the endpoints of api/main.py, which hold the  *)
(* logger of line 37, and FederatedServer.evaluate_fn, which holds the one  *)
(* of server.py line 15.  Both come from get_safe_blockchain_logger in the  *)
(* same environment; the endpoints touch only its audit log, evaluate_fn    *)
(* only its training log and queue.                                         *)

\* operations the callers make in one run
MaxOps == 2
\* seconds the clock advances in one run
MaxTime == 10
\* seconds between two readings of the clock that differ
ClockStep == 2
\* _AUDIT_COOLDOWN
AuditCooldown == 10
\* cooldown=2 of a failed login
LoginFailedCooldown == 2
\* cooldown=0: "always log"
NoCooldown == 0

\* a logger class without enqueue_training_metadata
MethodsNoEnqueue(cls) == {"log_event", "get_logs", "log_training_metadata"}

\* the public methods a class defines
Methods(cls) ==
    IF cls = "MockBlockchainLogger"
    THEN {"enqueue", "enqueue_training_metadata", "log_event", "log_data_upload",
          "log_patient_action", "get_logs", "get_audit_logs", "get_log_count",
          "get_audit_log_count", "verify"}
    ELSE {"stop", "enqueue_training_metadata", "flush", "get_logs",
          "verify_onchain_hash", "compute_metadata_hash_static", "health_check"}

\* hasattr(blockchain_logger, op)
HasAttr(op) == op \in Methods(handle)

\* what a method returns
Shape(op) ==
    CASE op = "log_event" -> "str"
      [] op = "log_data_upload" -> "str"
      [] op = "enqueue_training_metadata" -> "tuple"
      [] op = "get_logs" -> "list"
      [] op = "get_audit_logs" -> "list"
      [] op = "health_check" -> "dict"

\* the comparison of line 85 made strict
ElapsedStrictly(last, cooldown) == now - last > cooldown

\* line 85
Elapsed(last, cooldown) == now - last >= cooldown

\* _should_log_action, lines 81-88: the value it returns; last is
\* _audit_last_logged.get(action, 0)
ShouldLogAction(action, cooldown) == Elapsed(audit_last_logged[action], cooldown)

\* an exception of the logger reaching the caller
PropagatesRaised(raised) == raised

\* lines 98-104, 395-409, 605-616, 745-754 of api/main.py and 60-84 of
\* server.py: the call is inside try/except Exception
Propagates(raised) == FALSE

\* what the audit part of an endpoint leaves alone
AuditFrame ==
    UNCHANGED <<env, ctor, handle, is_mock, queue, logged_rounds, stop_worker,
                worker_pc, cur, attempt, backoff, precheck_hit, txs, ledger, mock_logs,
                calls, enqueued, outcome, now, training_logs, fl_calls, eligVars,
                worker_threads, fn_names>>

\* The audit part of an endpoint.  mode "guarded" is _log_audit (lines 90-104:
\* the hasattr test, the throttle, the call), "direct" is the throttle followed
\* by blockchain_logger.log_event in a try (lines 395-409, 604-616),
\* "unthrottled" is log_data_upload in a try (lines 745-754), "none" is an
\* endpoint that makes no audit call.  fault: the method raises by itself.
AuditCall(op, status, action, key, cooldown, mode, fault) ==
    LET consulted == mode = "direct" \/ (mode = "guarded" /\ HasAttr("log_event"))
        pass == consulted /\ ShouldLogAction(key, cooldown)
        method == IF mode = "unthrottled" THEN "log_data_upload" ELSE "log_event"
        called == IF mode = "unthrottled" THEN TRUE ELSE pass
        raised == called /\ (~HasAttr(method) \/ fault)
    IN
    /\ audit_last_logged' = IF pass THEN [audit_last_logged EXCEPT ![key] = now]
                            ELSE audit_last_logged
    /\ throttle_history' =
         IF consulted
         THEN [throttle_history EXCEPT
                 ![key] = [called |-> TRUE,
                           last_true |-> IF pass THEN now ELSE @.last_true]]
         ELSE throttle_history
    /\ mock_audit_logs' = IF called /\ ~raised THEN Append(mock_audit_logs, AuditEntry(action, now))
                          ELSE mock_audit_logs
    /\ response' = [op |-> op,
                    status |-> IF Propagates(raised) THEN "500" ELSE status,
                    action |-> action, key |-> key, cooldown |-> cooldown,
                    mode |-> mode, fault |-> (called /\ fault),
                    consulted |-> consulted, should_log |-> pass, raised |-> raised]
    /\ AuditFrame

\* an endpoint that starts no thread and leaves training_logs alone, with its
\* audit part
Audit(op, status, action, key, cooldown, mode, fault) ==
    /\ ops < MaxOps
    /\ ops' = ops + 1
    /\ AuditCall(op, status, action, key, cooldown, mode, fault)
    /\ UNCHANGED <<runs, api_training_logs>>

\* time passes
Tick ==
    /\ now + ClockStep <= StartTime + MaxTime
    /\ now' = now + ClockStep
    /\ UNCHANGED <<env, ctor, handle, is_mock, queue, logged_rounds, stop_worker,
                   worker_pc, cur, attempt, backoff, precheck_hit, txs, ledger, mock_logs,
                   mock_audit_logs, calls, enqueued, outcome, audit_last_logged,
                   throttle_history, is_training, response, ops, training_logs,
                   fl_calls, eligVars,
                runVars>>

\* login, lines 146-173; found: authenticate_hospital returned a hospital
Login ==
    /\ \E found \in BOOLEAN, fault \in BOOLEAN :
        IF found
        THEN Audit("login", "200", "USER_LOGIN", "USER_LOGIN", NoCooldown,
                   "guarded", fault)
        ELSE Audit("login", "401", "LOGIN_FAILED", "LOGIN_FAILED",
                   LoginFailedCooldown, "guarded", fault)
    /\ UNCHANGED is_training

\* get_stats, lines 310-343
GetStats ==
    /\ \E fault \in BOOLEAN :
        Audit("stats", "200", "DASHBOARD_VIEWED", "DASHBOARD_VIEWED", AuditCooldown,
              "guarded", fault)
    /\ UNCHANGED is_training

\* get_patients, lines 380-420
GetPatients ==
    /\ \E fault \in BOOLEAN :
        Audit("patients", "200", "PATIENTS_VIEWED", "PATIENTS_VIEWED", AuditCooldown,
              "direct", fault)
    /\ UNCHANGED is_training

\* the audit part of get_eligible_patients_for_drug, lines 602-616
EligibilityScreen ==
    /\ \E drug \in Drugs, fault \in BOOLEAN :
        Audit("eligible", "200", "ELIGIBILITY_SCREEN", EligKey(drug), AuditCooldown,
              "direct", fault)
    /\ UNCHANGED is_training

\* upload_file, lines 683-775; supported: the extension is one of the three
UploadFile ==
    /\ \E supported \in BOOLEAN, fault \in BOOLEAN :
        IF supported
        THEN Audit("upload", "200", "DATA_UPLOAD", "", NoCooldown, "unthrottled", fault)
        ELSE Audit("upload", "400", "", "", NoCooldown, "none", FALSE)
    /\ UNCHANGED is_training

\* start_training, lines 791-870
StartTraining ==
    IF is_training
    THEN /\ Audit("start_training", "400", "", "", NoCooldown, "none", FALSE)
         /\ UNCHANGED is_training
    ELSE /\ \E fault \in BOOLEAN :
              Audit("start_training", "200", "TRAINING_STARTED", "TRAINING_STARTED",
                    NoCooldown, "guarded", fault)
         /\ is_training' = TRUE

\* stop_training, lines 872-876
StopTraining ==
    /\ Audit("stop_training", "200", "", "", NoCooldown, "none", FALSE)
    /\ is_training' = FALSE

\* run_training_simulation ends, lines 866-867
TrainingSimulationEnds ==
    /\ is_training
    /\ is_training' = FALSE
    /\ UNCHANGED <<env, ctor, handle, is_mock, queue, logged_rounds, stop_worker,
                   worker_pc, cur, attempt, backoff, precheck_hit, txs, ledger, mock_logs,
                   mock_audit_logs, calls, enqueued, outcome, now, audit_last_logged,
                   throttle_history, response, ops, training_logs, fl_calls, eligVars,
                runVars>>

\* the read methods of the interface
ReadOps == {"get_logs", "get_audit_logs", "health_check"}

\* a caller invoking a read method on the logger it holds
Invoke ==
    /\ ops < MaxOps
    /\ ops' = ops + 1
    /\ \E op \in ReadOps :
        response' = [NoResponse EXCEPT
                        !.op = op,
                        !.status = IF HasAttr(op) THEN Shape(op) ELSE "AttributeError"]
    /\ UNCHANGED <<env, ctor, handle, is_mock, queue, logged_rounds, stop_worker,
                   worker_pc, cur, attempt, backoff, precheck_hit, txs, ledger, mock_logs,
                   mock_audit_logs, calls, enqueued, outcome, now, audit_last_logged,
                   throttle_history, is_training, training_logs, fl_calls, eligVars,
                runVars>>

\* hashlib.sha256(...).hexdigest(), server.py line 48
Sha256Hex == "9f86d081884c7d659a2feaa0c55ad015a3bf4f1b2b0b822cd15d6c15b0f00a08"

\* FederatedServer.evaluate_fn, server.py lines 21-86, for a round whose
\* evaluation succeeds; fault: enqueue_training_metadata raises
EvaluateFn ==
    /\ ops < MaxOps
    /\ ops' = ops + 1
    /\ \E n \in {0} \cup Rounds, fault \in BOOLEAN :
        LET a == Call(n, GoodAccuracy, Sha256Hex)
            has == HasAttr("enqueue_training_metadata")
        IN
        /\ training_logs' = Append(training_logs, n)
        /\ fl_calls' = IF has THEN Append(fl_calls, a) ELSE fl_calls
        /\ IF has /\ ~fault
           THEN EnqueueCall(a)
           ELSE UNCHANGED <<env, ctor, handle, is_mock, queue, logged_rounds,
                            stop_worker, worker_pc, cur, attempt, backoff, precheck_hit, txs,
                            ledger, mock_logs, mock_audit_logs, calls, enqueued,
                            outcome>>
        /\ response' = [NoResponse EXCEPT
                          !.op = "evaluate_fn",
                          !.status = IF Propagates(has /\ fault) THEN "raised"
                                     ELSE "returned",
                          !.fault = (has /\ fault),
                          !.raised = (has /\ fault)]
    /\ UNCHANGED <<now, audit_last_logged, throttle_history, is_training, eligVars, runVars>>

\* the logger the callers get: get_safe_blockchain_logger(strict=False) with the
\* node up or down
InitApp ==
    /\ \E e \in {LocalNode, NodeDown} :
        /\ env = e
        /\ ctor = Factory(FALSE)
        /\ handle = Obtain(e, Factory(FALSE)).handle
        /\ is_mock = Obtain(e, Factory(FALSE)).is_mock
        /\ worker_pc = Obtain(e, Factory(FALSE)).worker_pc
        /\ worker_threads = WorkerThreads(Obtain(e, Factory(FALSE)))
        /\ fn_names = FnNames(e, Obtain(e, Factory(FALSE)))
    /\ FreshFields
    /\ NoCaller

NextApp ==
    \/ Tick
    \/ Login
    \/ GetStats
    \/ GetPatients
    \/ EligibilityScreen
    \/ UploadFile
    \/ StartTraining
    \/ StopTraining
    \/ TrainingSimulationEnds
    \/ Invoke
    \/ EvaluateFn

SpecApp == InitApp /\ [][NextApp]_vars

-----------------------------------------------------------------------------
(* Properties of the callers (SpecApp) *)

\* the step is one operation of a caller
CallerStep == ops' = ops + 1

\* by the calls made so far, the throttle lets (key, cooldown) through: no call
\* for the key yet, or cooldown seconds since its last call that returned True
Due(key, cooldown) ==
    \/ ~throttle_history[key].called
    \/ now - throttle_history[key].last_true >= cooldown

\* the step appends one entry to the audit log
Recorded == Len(mock_audit_logs') = Len(mock_audit_logs) + 1

\* C11: whichever backend the caller holds, every read method of the interface
\* is there (no AttributeError), and an operation whose audit event is due and
\* whose logger call does not fail by itself gets the event recorded.
C11_BackendTransparent ==
    [][CallerStep
       => (/\ response'.op \in ReadOps => response'.status = Shape(response'.op)
           /\ (/\ response'.mode \in {"guarded", "direct"}
               /\ ~response'.fault
               /\ Due(response'.key, response'.cooldown))
              => Recorded)]_vars

\* C12: a call of the throttle for (key, cooldown) returns True exactly when it
\* is the first for the key or cooldown seconds have passed since the last call
\* for the key that returned True; it then records now for that key and nothing
\* else, and a call that returns False, or a step that makes no call, leaves the
\* recorded times as they were.
C12_ThrottleRule ==
    [][IF CallerStep /\ response'.consulted
       THEN LET k == response'.key
                due == Due(k, response'.cooldown)
            IN /\ response'.should_log = due
               /\ audit_last_logged' = IF due
                                       THEN [audit_last_logged EXCEPT ![k] = now]
                                       ELSE audit_last_logged
       ELSE audit_last_logged' = audit_last_logged]_vars

\* C12 witness: a second failed login less than its cooldown after the first
\* one was throttled.
C12_Witness ==
    /\ ops = 2
    /\ Len(mock_audit_logs) = 1
    /\ mock_audit_logs[1].action = "LOGIN_FAILED"
    /\ response.key = "LOGIN_FAILED"
    /\ response.consulted
    /\ ~response.should_log

\* C13: every accepted login, upload, training start and training stop, whose
\* logger call does not fail by itself, appends an entry to the audit log.
C13_WriteEventsAlwaysLogged ==
    [][(/\ CallerStep
        /\ response'.op \in {"login", "upload", "start_training", "stop_training"}
        /\ response'.status = "200"
        /\ ~response'.fault)
       => Recorded]_vars

\* what an operation returns when logging succeeds
ExpectedStatus(r) ==
    IF r.op = "evaluate_fn" THEN "returned"
    ELSE IF r.action = "LOGIN_FAILED" THEN "401"
    ELSE "200"

\* C14: when the logger raises during an operation, the operation returns what
\* it returns when logging succeeds, and evaluate_fn has recorded its round.
C14_AuditFailureSwallowed ==
    [][(CallerStep /\ response'.raised)
       => (/\ response'.status = ExpectedStatus(response')
           /\ response'.op = "evaluate_fn"
              => Len(training_logs') = Len(training_logs) + 1)]_vars

\* C14 witness: log_event raised during a login that was answered with 200.
C14_Witness ==
    /\ response.op = "login"
    /\ response.raised
    /\ response.fault
    /\ response.status = "200"

\* C15: each evaluation makes exactly one enqueue_training_metadata call, for
\* the round evaluated, with a number as accuracy and a hex digest as model hash.
C15_OneEnqueuePerRound ==
    [][(CallerStep /\ response'.op = "evaluate_fn")
       => (/\ Len(training_logs') = Len(training_logs) + 1
           /\ Len(fl_calls') = Len(fl_calls) + 1
           /\ SubSeq(fl_calls', 1, Len(fl_calls)) = fl_calls
           /\ LET c == fl_calls'[Len(fl_calls')]
                  n == training_logs'[Len(training_logs')]
              IN /\ c.round_number = n
                 /\ c.accuracy.is_number
                 /\ Len(c.model_hash) = 64)]_vars

\* C15 witness: rounds 1 and 2 were evaluated, one call each.
C15_Witness ==
    /\ training_logs = <<1, 2>>
    /\ Len(fl_calls) = 2
    /\ fl_calls[1].round_number = 1
    /\ fl_calls[2].round_number = 2

-----------------------------------------------------------------------------
(* get_eligible_patients_for_drug, api/main.py lines 556-657, without its    *)
(* audit call (EligibilityScreen above): the trial parameters, the           *)
(* partition, the page.  bmi is held in hundredths; a missing number is      *)
(* None, a missing string is "".                                             *)

\* patients in the database
MaxPop == 21
\* line 566
MinPageSize == 10
\* line 566
MaxPageSize == 200
\* line 567
MinPage == 1
\* line 479: [18, 85]
DefaultAgeMin == 18
DefaultAgeMax == 85
\* line 482: [15.0, 40.0]
DefaultBmiMin == 1500
DefaultBmiMax == 4000
\* line 632: page_patients_raw[:5]
ColumnSample == 5
\* line 638: {:05d}
AnonWidth == 5
\* Python None, for age and bmi
None == -1

\* lines 305-308
FederatedColumns == {"patient_id", "age", "gender", "blood_group", "disease",
                     "stage", "comorbidities", "bmi", "diagnosis_date"}

SetMin(S) == CHOOSE x \in S : \A y \in S : x <= y
SetMax(S) == CHOOSE x \in S : \A y \in S : y <= x
Min2(a, b) == IF a <= b THEN a ELSE b
Max2(a, b) == IF a >= b THEN a ELSE b

\* an identifier: a prefix and the decimal digits after it
Id(prefix, digits) == [prefix |-> prefix, digits |-> digits]

Stored(id, name, hospital, disease, age, gender, blood_group, bmi, stage) ==
    [patient_id |-> id, patient_name |-> name, hospital_name |-> hospital,
     disease |-> disease, age |-> age, gender |-> gender,
     blood_group |-> blood_group, bmi |-> bmi, stage |-> stage]

\* the kinds of stored patient the populations are made of
Young == Stored(Id("PT-", <<1>>), "Ann", "H1", "Diabetes", 30, "Male", "A+", 2246, "II")
Old == Stored(Id("PT-", <<2>>), "Bob", "H2", "Diabetes", 60, "Female", "O-", 3050, "III")
Other == Stored(Id("PT-", <<3>>), "Cid", "H1", "Asthma", 45, "Male", "A+", 2500, "II")
Aged == Stored(Id("PT-", <<4>>), "Dee", "H2", "Asthma", 70, "Female", "B+", 1800, "I")
Blank == Stored(Id("PT-", <<5>>), "", "H1", "Diabetes", None, "", "", None, "")
\* a document with few of the fields
Bare == [patient_id |-> Id("PT-", <<6>>), patient_name |-> "Eve",
         disease |-> "Asthma", age |-> 50]

Patterns == {<<Young>>, <<Blank>>, <<Young, Old>>, <<Old, Young, Other>>,
             <<Other, Aged>>, <<Aged, Young, Blank>>, <<Bare, Other>>,
             <<Young, Aged, Old, Bare>>}

\* n patients, the pattern repeated
Population(pattern, n) == [i \in 1..n |-> pattern[((i - 1) % Len(pattern)) + 1]]

\* p.get(k, d)
Get(p, k, d) == IF k \in DOMAIN p THEN p[k] ELSE d

\* p.get(c) is there and not empty
Present(p, c) ==
    /\ c \in DOMAIN p
    /\ IF c \in {"age", "bmi"} THEN p[c] # None
       ELSE IF c = "patient_id" THEN TRUE
       ELSE p[c] # ""

\* line 574: drugName -> indication of the trials in the database
TrialDiseaseMap == [DrugA |-> "Diabetes", DrugB |-> "Asthma"]

\* line 575: trial_disease_map.get(drug_name, drug_name)
DiseaseOf(drug_name) ==
    IF drug_name \in DOMAIN TrialDiseaseMap THEN TrialDiseaseMap[drug_name]
    ELSE drug_name

\* round(x, 1) of a number of hundredths, halves to even
Round1(x) ==
    LET lo == (x \div 10) * 10
        r == x - lo
    IN IF r < 5 THEN lo
       ELSE IF r > 5 THEN lo + 10
       ELSE IF (lo \div 10) % 2 = 0 THEN lo ELSE lo + 10

\* the age default the wrong way round
AgeRangeDefaultSwapped(ages) ==
    IF ages # {} THEN <<SetMin(ages), SetMax(ages)>>
    ELSE <<DefaultAgeMax, DefaultAgeMin>>

\* line 479
AgeRange(ages) ==
    IF ages # {} THEN <<SetMin(ages), SetMax(ages)>>
    ELSE <<DefaultAgeMin, DefaultAgeMax>>

\* line 482
BmiRange(bmis) ==
    IF bmis # {} THEN <<Round1(SetMin(bmis)), Round1(SetMax(bmis))>>
    ELSE <<DefaultBmiMin, DefaultBmiMax>>

\* the values of a column among the patients of a disease that have one
Observed(all_patients, disease, c) ==
    {all_patients[i][c] : i \in {j \in DOMAIN all_patients :
                                    /\ Get(all_patients[j], "disease", "") = disease
                                    /\ Present(all_patients[j], c)}}

\* a comorbidities value: a list of tokens, or a value that is no list
TokenList(tokens) == [is_list |-> TRUE, tokens |-> tokens]
NoList == [is_list |-> FALSE, tokens |-> <<>>]

\* lines 471-473: the tokens of the patients of the disease, in population order
RECURSIVE Comorbidities(_, _)
Comorbidities(all_patients, disease) ==
    IF all_patients = <<>> THEN <<>>
    ELSE LET p == Head(all_patients)
             c == Get(p, "comorbidities", TokenList(<<>>))
         IN (IF Get(p, "disease", "") = disease /\ c.is_list THEN c.tokens ELSE <<>>)
            \o Comorbidities(Tail(all_patients), disease)

\* lines 474-476: comorbidity_counts[c]
Count(list, c) == Cardinality({i \in DOMAIN list : list[i] = c})

\* lines 474-476: the keys of comorbidity_counts, in insertion order
RECURSIVE CountKeys(_)
CountKeys(list) ==
    IF list = <<>> THEN <<>>
    ELSE LET before == CountKeys(SubSeq(list, 1, Len(list) - 1))
             c == list[Len(list)]
         IN IF \E i \in DOMAIN before : before[i] = c THEN before ELSE Append(before, c)

\* the key counted most often, the last of them when several are
LastLargest(keys, list) ==
    CHOOSE i \in DOMAIN keys :
        \A j \in DOMAIN keys :
            \/ Count(list, keys[i]) > Count(list, keys[j])
            \/ Count(list, keys[i]) = Count(list, keys[j]) /\ i >= j

\* line 477, sorted(..., reverse=True) is stable: of the keys counted most
\* often the first comes first
FirstLargest(keys, list) ==
    CHOOSE i \in DOMAIN keys :
        \A j \in DOMAIN keys :
            \/ Count(list, keys[i]) > Count(list, keys[j])
            \/ Count(list, keys[i]) = Count(list, keys[j]) /\ i <= j

\* line 477: sorted(comorbidity_counts, key=comorbidity_counts.get, reverse=True)
RECURSIVE SortedByCount(_, _)
SortedByCount(keys, list) ==
    IF keys = <<>> THEN <<>>
    ELSE LET i == FirstLargest(keys, list)
         IN <<keys[i]>> \o SortedByCount(SubSeq(keys, 1, i - 1) \o SubSeq(keys, i + 1, Len(keys)),
                                         list)

\* line 477: [:5]
TopCount == 5

\* lines 471-477: top_comorbidities
TopComorbidities(all_patients, disease) ==
    LET list == Comorbidities(all_patients, disease)
        sorted == SortedByCount(CountKeys(list), list)
    IN SubSeq(sorted, 1, Min2(TopCount, Len(sorted)))

\* _build_trial_params_for_disease, lines 457-485 (the sorted lists as sets)
BuildTrialParams(all_patients, disease) ==
    LET genders == Observed(all_patients, disease, "gender") IN
    [ageRange |-> AgeRange(Observed(all_patients, disease, "age")),
     genders |-> IF genders # {} THEN genders ELSE {"Male", "Female"},
     bloodGroups |-> Observed(all_patients, disease, "blood_group"),
     bmiRange |-> BmiRange(Observed(all_patients, disease, "bmi")),
     stages |-> Observed(all_patients, disease, "stage"),
     commonComorbidities |-> TopComorbidities(all_patients, disease)]

\* the limits themselves left out
InRangeStrictly(range, v) == range[1] < v /\ v < range[2]

\* lines 430 and 447: lo <= v <= hi
InRange(range, v) == range[1] <= v /\ v <= range[2]

\* _compute_eligibility, lines 426-454; a range the params do not hold is <<>>
ComputeEligibility(patient, trial_params) ==
    LET age == Get(patient, "age", None)
        gender == Get(patient, "gender", "")
        bg == Get(patient, "blood_group", "")
        bmi == Get(patient, "bmi", None)
        stage == Get(patient, "stage", "")
    IN
    /\ (age # None /\ trial_params.ageRange # <<>>)
       => InRange(trial_params.ageRange, age)
    /\ ~(trial_params.genders # {} /\ gender # "" /\ gender \notin trial_params.genders)
    /\ ~(trial_params.bloodGroups # {} /\ bg # "" /\ bg \notin trial_params.bloodGroups)
    /\ (bmi # None /\ trial_params.bmiRange # <<>>)
       => InRange(trial_params.bmiRange, bmi)
    /\ ~(trial_params.stages # {} /\ stage # "" /\ stage \notin trial_params.stages)

\* the indices of s, in order
Indices(s) == [i \in 1..Len(s) |-> i]

\* lines 584-587
EligibleIds(all_p, trial_params) ==
    SelectSeq(Indices(all_p), LAMBDA i : ComputeEligibility(all_p[i], trial_params))

\* every patient put on the not-eligible list
NotEligibleIdsEveryone(all_p, trial_params) == Indices(all_p)

\* lines 588-589
NotEligibleIds(all_p, trial_params) ==
    SelectSeq(Indices(all_p), LAMBDA i : ~ComputeEligibility(all_p[i], trial_params))

\* the upper limit left out
ClampPageSizeBelow(page_size) == Max2(page_size, MinPageSize)

\* line 566
ClampPageSize(page_size) == Min2(Max2(page_size, MinPageSize), MaxPageSize)

\* line 567
ClampPage(page) == Max2(page, MinPage)

\* ids[start:end]
Slice(ids, start, end) ==
    IF start >= Len(ids) THEN <<>> ELSE SubSeq(ids, start + 1, Min2(end, Len(ids)))

\* the pages counted by rounding down
TotalPagesFloor(total_for_tab, page_size) == Max2(1, total_for_tab \div page_size)

\* line 630: max(1, -(-total_for_tab // page_size))
TotalPages(total_for_tab, page_size) ==
    Max2(1, 0 - ((0 - total_for_tab) \div page_size))

RECURSIVE Digits(_)
\* the decimal digits of n >= 0
Digits(n) == IF n < 10 THEN <<n>> ELSE Append(Digits(n \div 10), n % 10)

RECURSIVE ZeroPad(_, _)
ZeroPad(digits, width) ==
    IF Len(digits) >= width THEN digits ELSE ZeroPad(<<0>> \o digits, width)

\* the number counted within the page
AnonNumberInPage(start, idx) == idx + 1

\* line 638: start + idx + 1, idx counting the rows of the page from 0
AnonNumber(start, idx) == start + idx + 1

\* line 638: f"ANON-{n:05d}"
Anon(n) == Id("ANON-", ZeroPad(Digits(n), AnonWidth))

\* lines 632-639: the row of the idx-th patient of the page
Row(p, cols, start, idx) ==
    [k \in (cols \ {"patient_id"}) \cup {"patient_id"} |->
        IF k = "patient_id" THEN Anon(AnonNumber(start, idx)) ELSE Get(p, k, None)]

\* the handler, lines 565-655
EligiblePatientsForDrug(req) ==
    LET page_size == ClampPageSize(req.page_size)
        page == ClampPage(req.page)
        all_p == req.all_p
        trial_params == BuildTrialParams(all_p, DiseaseOf(req.drug_name))
        eligible_ids == EligibleIds(all_p, trial_params)
        not_eligible_ids == NotEligibleIds(all_p, trial_params)
        mine == {i \in DOMAIN all_p :
                    /\ req.hospital # ""
                    /\ Get(all_p[i], "hospital_name", "") = req.hospital}
        start == (page - 1) * page_size
        end == start + page_size
        tab_ids == IF req.tab = "eligible" THEN eligible_ids ELSE not_eligible_ids
        page_ids == Slice(tab_ids, start, end)
        raw == [j \in 1..Len(page_ids) |-> all_p[page_ids[j]]]
        cols == {c \in FederatedColumns :
                    \E j \in 1..Min2(ColumnSample, Len(raw)) : c \in DOMAIN raw[j]}
    IN
    [drug |-> req.drug_name,
     hospital |-> req.hospital,
     tab |-> req.tab,
     patients |-> [j \in 1..Len(raw) |-> Row(raw[j], cols, start, j - 1)],
     columns |-> cols,
     eligible_count |-> Len(eligible_ids),
     not_eligible_count |-> Len(not_eligible_ids),
     hospital_eligible_count |->
        Cardinality({i \in mine : ComputeEligibility(all_p[i], trial_params)}),
     hospital_not_eligible_count |->
        Cardinality({i \in mine : ~ComputeEligibility(all_p[i], trial_params)}),
     hospital_total |-> Cardinality(mine),
     page |-> page,
     page_size |-> page_size,
     total_pages |-> TotalPages(Len(tab_ids), page_size),
     trial_params |-> trial_params,
     eligible_ids |-> eligible_ids,
     not_eligible_ids |-> not_eligible_ids,
     page_ids |-> page_ids]

\* the requests: a database content and the query parameters
Requests ==
    [drug_name : {"DrugA", "Asthma", "Unknown"},
     all_p : {Population(pattern, n) : pattern \in Patterns, n \in 0..MaxPop},
     page_size : {-5, 0, MinPageSize, MinPageSize + 1, MaxPageSize + 1},
     page : {-1, 0, 1, 2, 3},
     hospital : {"", "H1"},
     tab : {"eligible", "not_eligible", "all"}]

\* the request is served
GetEligiblePatientsForDrug ==
    /\ elig_request # NoRequest
    /\ elig_result = NoRequest
    /\ elig_result' = EligiblePatientsForDrug(elig_request)
    /\ UNCHANGED <<env, ctor, handle, is_mock, queue, logged_rounds, stop_worker,
                   worker_pc, cur, attempt, backoff, precheck_hit, txs, ledger, mock_logs,
                   mock_audit_logs, calls, enqueued, outcome, appVars, elig_request, runVars>>

InitElig ==
    /\ env = NodeDown
    /\ ctor = Factory(FALSE)
    /\ handle = Obtain(NodeDown, Factory(FALSE)).handle
    /\ is_mock = Obtain(NodeDown, Factory(FALSE)).is_mock
    /\ worker_pc = Obtain(NodeDown, Factory(FALSE)).worker_pc
    /\ worker_threads = WorkerThreads(Obtain(NodeDown, Factory(FALSE)))
    /\ fn_names = FnNames(NodeDown, Obtain(NodeDown, Factory(FALSE)))
    /\ FreshFields
    /\ AppFresh
    /\ elig_request \in Requests
    /\ elig_result = NoRequest

NextElig == GetEligiblePatientsForDrug

SpecElig == InitElig /\ [][NextElig]_vars

-----------------------------------------------------------------------------
(* Properties of the eligibility screen *)

Served == elig_result # NoRequest

\* the members of a sequence
Range(s) == {s[i] : i \in DOMAIN s}

\* s lists its members in increasing order
Increasing(s) == \A i, j \in DOMAIN s : i < j => s[i] < s[j]

\* the list of the requested tab
TabIds == IF elig_result.tab = "eligible" THEN elig_result.eligible_ids
          ELSE elig_result.not_eligible_ids

\* C16: every index of the population is in exactly one of the eligible and
\* the not-eligible list, both lists keep the input order, and
\* eligible_count + not_eligible_count is the size of the population.
C16_CompletePartition ==
    Served =>
        /\ \A i \in DOMAIN elig_request.all_p :
              (i \in Range(elig_result.eligible_ids))
                  # (i \in Range(elig_result.not_eligible_ids))
        /\ Range(elig_result.eligible_ids) \cup Range(elig_result.not_eligible_ids)
              \subseteq DOMAIN elig_request.all_p
        /\ Increasing(elig_result.eligible_ids)
        /\ Increasing(elig_result.not_eligible_ids)
        /\ elig_result.eligible_count = Len(elig_result.eligible_ids)
        /\ elig_result.not_eligible_count = Len(elig_result.not_eligible_ids)
        /\ elig_result.eligible_count + elig_result.not_eligible_count
              = Len(elig_request.all_p)

\* a population of which several patients are eligible and several are not
C16_Witness ==
    /\ Served
    /\ elig_result.eligible_count >= 2
    /\ elig_result.not_eligible_count >= 2

\* C17: total_pages is max(1, ceil(N / page_size)) for a tab of N patients,
\* a page has at most page_size rows, and the page numbered total_pages has
\* exactly N - (total_pages - 1) * page_size rows.
C17_PaginationArithmetic ==
    Served =>
        LET N == Len(TabIds)
            size == elig_result.page_size
            t == elig_result.total_pages
        IN /\ t >= 1
           /\ t * size >= N
           /\ t > 1 => (t - 1) * size < N
           /\ Len(elig_result.patients) <= size
           /\ elig_result.page = t => Len(elig_result.patients) = N - (t - 1) * size

\* the last of several pages, partly filled
C17_Witness ==
    /\ Served
    /\ elig_result.total_pages >= 2
    /\ elig_result.page = elig_result.total_pages
    /\ Len(elig_result.patients) > 0
    /\ Len(elig_result.patients) < elig_result.page_size

RECURSIVE Value(_)
\* the number a sequence of decimal digits writes
Value(digits) ==
    IF digits = <<>> THEN 0
    ELSE 10 * Value(SubSeq(digits, 1, Len(digits) - 1)) + digits[Len(digits)]

\* C18: the j-th row of page k carries the identifier ANON- followed by
\* (k - 1) * page_size + j written with at least five digits, never the stored
\* identifier of its patient, and only columns of the federated set.
C18_AnonymousPositional ==
    Served =>
        \A j \in DOMAIN elig_result.patients :
            LET row == elig_result.patients[j]
                i == (elig_result.page - 1) * elig_result.page_size + j
            IN /\ row.patient_id.prefix = "ANON-"
               /\ Value(row.patient_id.digits) = i
               /\ Len(row.patient_id.digits) >= AnonWidth
               /\ TabIds[i] = elig_result.page_ids[j]
               /\ row.patient_id # elig_request.all_p[elig_result.page_ids[j]].patient_id
               /\ DOMAIN row \subseteq FederatedColumns

\* a later page with several rows
C18_Witness ==
    /\ Served
    /\ elig_result.page >= 2
    /\ Len(elig_result.patients) >= 2
    /\ "patient_id" \in elig_result.columns

\* C19: the page size returned is min(max(page_size, 10), 200), the page
\* returned is max(page, 1), and the rows are those of that page of that size.
C19_Clamping ==
    Served =>
        LET size == elig_result.page_size
            page == elig_result.page
            first == (page - 1) * size
        IN /\ size = (IF elig_request.page_size < MinPageSize THEN MinPageSize
                      ELSE IF elig_request.page_size > MaxPageSize THEN MaxPageSize
                      ELSE elig_request.page_size)
           /\ page = (IF elig_request.page < MinPage THEN MinPage ELSE elig_request.page)
           /\ Len(elig_result.patients) = Len(elig_result.page_ids)
           /\ Len(elig_result.page_ids)
                 = Max2(0, Min2(size, Len(TabIds) - first))
           /\ \A j \in DOMAIN elig_result.page_ids :
                 elig_result.page_ids[j] = TabIds[first + j]

\* a page size above the limit and a page number below one, rows returned
C19_Witness ==
    /\ Served
    /\ elig_request.page_size > MaxPageSize
    /\ elig_request.page < MinPage
    /\ Len(elig_result.patients) > MinPageSize

\* a patient of the disease of the request that has a value in column c
Contributes(c) ==
    \E i \in DOMAIN elig_request.all_p :
        /\ Get(elig_request.all_p[i], "disease", "") = DiseaseOf(elig_request.drug_name)
        /\ Present(elig_request.all_p[i], c)

\* C20: the age and the BMI range have min <= max, and a parameter no patient
\* of the disease contributes to has its default: age [18, 85], BMI
\* [15.0, 40.0], genders Male and Female, no blood groups, no stages.
C20_WellFormedRanges ==
    Served =>
        LET params == elig_result.trial_params IN
        /\ params.ageRange[1] <= params.ageRange[2]
        /\ params.bmiRange[1] <= params.bmiRange[2]
        /\ ~Contributes("age") => params.ageRange = <<DefaultAgeMin, DefaultAgeMax>>
        /\ ~Contributes("bmi") => params.bmiRange = <<DefaultBmiMin, DefaultBmiMax>>
        /\ ~Contributes("gender") => params.genders = {"Male", "Female"}
        /\ ~Contributes("blood_group") => params.bloodGroups = {}
        /\ ~Contributes("stage") => params.stages = {}

\* patients of the disease, none of them with a value
C20_Witness ==
    /\ Served
    /\ \E i \in DOMAIN elig_request.all_p :
          Get(elig_request.all_p[i], "disease", "") = DiseaseOf(elig_request.drug_name)
    /\ \A c \in {"age", "bmi", "gender", "blood_group", "stage"} : ~Contributes(c)
    /\ elig_result.trial_params.ageRange = <<DefaultAgeMin, DefaultAgeMax>>

-----------------------------------------------------------------------------
(* _compute_eligibility over patients and trial parameters of every kind:   *)
(* values at, inside and outside the limits, absent values, fields the       *)
(* params do not restrict.                                                   *)

RulePatients ==
    {Stored(Id("PT-", <<7>>), "Fay", "H1", "Diabetes", age, gender, blood_group, bmi, stage) :
        age \in {None, 0, 18, 60, 61}, gender \in {"", "Male", "Female"},
        blood_group \in {"", "A+", "O-"}, bmi \in {None, 1799, 1800, 3000, 3001},
        stage \in {"", "II", "III"}}
    \cup {Bare}

RuleParams ==
    [ageRange : {<<>>, <<18, 60>>},
     genders : {{}, {"Male"}},
     bloodGroups : {{}, {"A+", "B+"}},
     bmiRange : {<<>>, <<1800, 3000>>},
     stages : {{}, {"II"}}]

\* one call of _compute_eligibility
ComputeEligibilityCall ==
    /\ elig_request # NoRequest
    /\ elig_result = NoRequest
    /\ elig_result' = [is_eligible |-> ComputeEligibility(elig_request.patient,
                                                          elig_request.trial_params)]
    /\ UNCHANGED <<env, ctor, handle, is_mock, queue, logged_rounds, stop_worker,
                   worker_pc, cur, attempt, backoff, precheck_hit, txs, ledger, mock_logs,
                   mock_audit_logs, calls, enqueued, outcome, appVars, elig_request, runVars>>

InitRule ==
    /\ env = NodeDown
    /\ ctor = Factory(FALSE)
    /\ handle = Obtain(NodeDown, Factory(FALSE)).handle
    /\ is_mock = Obtain(NodeDown, Factory(FALSE)).is_mock
    /\ worker_pc = Obtain(NodeDown, Factory(FALSE)).worker_pc
    /\ worker_threads = WorkerThreads(Obtain(NodeDown, Factory(FALSE)))
    /\ fn_names = FnNames(NodeDown, Obtain(NodeDown, Factory(FALSE)))
    /\ FreshFields
    /\ AppFresh
    /\ elig_request \in [patient : RulePatients, trial_params : RuleParams]
    /\ elig_result = NoRequest

NextRule == ComputeEligibilityCall

SpecRule == InitRule /\ [][NextRule]_vars

\* the patient of the call has no value in column c
Absent(c) == ~Present(elig_request.patient, c)

\* the patient's value in a column it has a value in
ValueOf(c) == elig_request.patient[c]

\* the criterion of a range: no value, no range, or a value within the limits
RangeMet(c, range) ==
    \/ Absent(c)
    \/ range = <<>>
    \/ (range[1] <= ValueOf(c) /\ ValueOf(c) <= range[2])

\* the criterion of a set: no value, no restriction, or a value of the set
SetMet(c, allowed) ==
    \/ Absent(c)
    \/ allowed = {}
    \/ ValueOf(c) \in allowed

\* C21: the patient is eligible exactly when each of age, gender, blood group,
\* BMI and stage is absent on the patient, or not restricted by the params, or
\* within the range or set of the params.
C21_EligibilityRule ==
    elig_result # NoRequest
    => (elig_result.is_eligible
        <=> (/\ RangeMet("age", elig_request.trial_params.ageRange)
             /\ SetMet("gender", elig_request.trial_params.genders)
             /\ SetMet("blood_group", elig_request.trial_params.bloodGroups)
             /\ RangeMet("bmi", elig_request.trial_params.bmiRange)
             /\ SetMet("stage", elig_request.trial_params.stages)))

\* a patient at the upper age limit, without blood group, under params that do
\* not restrict the stage, found eligible
C21_Witness ==
    /\ elig_result # NoRequest
    /\ elig_result.is_eligible
    /\ "stage" \in DOMAIN elig_request.patient
    /\ elig_request.patient.age = 60
    /\ elig_request.patient.blood_group = ""
    /\ elig_request.patient.stage = "III"
    /\ elig_request.trial_params.ageRange = <<18, 60>>
    /\ elig_request.trial_params.bloodGroups # {}
    /\ elig_request.trial_params.stages = {}

-----------------------------------------------------------------------------
(* A BlockchainLogger, in real or in mock mode, that logs one round while a  *)
(* caller looks at it once: flush, health_check or verify_onchain_hash.      *)

NoWeb3 == [LocalNode EXCEPT !.web3 = FALSE]

OtherHash == "0123456789abcdef"

\* the round logged: an accuracy whose product with 10000 is short, or one
\* whose product is exact
ObsArgs == {Call(1, Num(5700), GoodHash), Call(1, GoodAccuracy, GoodHash)}

\* the one call of the producer
ObsProducer ==
    /\ CallsMade = 0
    /\ \E a \in ObsArgs : EnqueueTrainingMetadata(a)

\* what an observer leaves alone: everything but response
ObserverFrame ==
    UNCHANGED <<env, ctor, handle, is_mock, queue, logged_rounds, stop_worker,
                worker_pc, cur, attempt, backoff, precheck_hit, txs, ledger, mock_logs,
                mock_audit_logs, calls, enqueued, outcome, now, audit_last_logged,
                throttle_history, is_training, ops, training_logs, fl_calls, eligVars,
                runVars>>

\* line 666: self._queue.empty()
QueueEmpty(q) == q = <<>>

\* flush, lines 663-670, returns: the queue is found empty, or it is not and
\* the timeout (0 for None) has passed
Flush ==
    /\ handle = "BlockchainLogger"
    /\ response = NoResponse
    /\ \E timeout \in {0, 5} :
        /\ ~QueueEmpty(queue) => timeout # 0
        /\ response' = [op |-> "flush",
                        status |-> IF QueueEmpty(queue) THEN "drained" ELSE "timeout",
                        timeout |-> timeout]
    /\ ObserverFrame

\* lines 326-330: self.w3 was assigned before initialization ended
W3Assigned(e) ==
    /\ e.web3
    /\ IF e.is_local THEN e.rpc_url ELSE e.infura_id

\* line 369: self.contract_address was read from the environment
ContractAddress(e) ==
    IF InitError(e) \in {"", "contract ABI mismatch"} THEN "0xC0" ELSE "None"

\* the size of the queue taken with the item the worker holds
QSizeWithCurrent == Len(queue) + (IF cur = NoItem THEN 0 ELSE 1)

\* line 741: self._queue.qsize()
QSize == Len(queue)

\* health_check, lines 737-750; probe: w3.is_connected() returns True, returns
\* False or raises
HealthCheck ==
    /\ handle = "BlockchainLogger"
    /\ response = NoResponse
    /\ \E probe \in {"true", "false", "raises"} :
        response' = [op |-> "health_check",
                     status |-> "returned",
                     probe |-> probe,
                     result |-> [is_mock |-> is_mock,
                                 queue_size |-> QSize,
                                 logged_rounds_count |-> Cardinality(logged_rounds),
                                 contract_address |-> ContractAddress(env),
                                 connected |-> (W3Assigned(env) /\ probe = "true")]]
    /\ ObserverFrame

\* the dict the caller of verify_onchain_hash holds
Local(r, acc, mh, ts) ==
    [round_number |-> r, accuracy |-> acc, model_hash |-> mh, timestamp |-> ts]

\* the dicts verified: the values of a logged round, each with others
Locals ==
    {Local(r, acc, mh, ts) : r \in {1, 2}, acc \in {5700, 5699, GoodAccuracy.e4},
                             mh \in {GoodHash, OtherHash},
                             ts \in {StartTime, StartTime + 1}}

\* lines 707-712: the metadata verify_onchain_hash hashes
LocalMetadata(local) ==
    <<<<"round_number", local.round_number>>,
      <<"accuracy_scaled", AccuracyScaled(local.accuracy)>>,
      <<"model_hash", local.model_hash>>,
      <<"timestamp", local.timestamp>>>>

\* the dict as MockBlockchainLogger.verify gets it
LocalDict(local) ==
    <<<<"round_number", local.round_number>>,
      <<"accuracy", local.accuracy>>,
      <<"model_hash", local.model_hash>>,
      <<"timestamp", local.timestamp>>>>

\* lines 701-702 with MockBlockchainLogger.verify, lines 221-224:
\* compute_metadata_hash_static reads metadata["accuracy_scaled"]
VerifyMock(local) ==
    IF \A k \in {"round_number", "accuracy_scaled", "model_hash", "timestamp"} :
          HasKey(LocalDict(local), k)
    THEN [status |-> "returned",
          result |-> (/\ HasKey(LocalDict(local), "metadata_hash")
                      /\ Lookup(LocalDict(local), "metadata_hash")
                            = ComputeMetadataHashStatic(LocalDict(local)))]
    ELSE [status |-> "raised", result |-> FALSE]

\* lines 704-716; index counts from 0; read_ok: the contract call returns
VerifyReal(index, local, read_ok) ==
    IF read_ok /\ index < Len(ledger)
    THEN [status |-> "returned",
          result |-> (OnChain(index + 1).metadata_hash
                        = ComputeMetadataHashStatic(LocalMetadata(local)))]
    ELSE [status |-> "returned", result |-> FALSE]

\* verify_onchain_hash, lines 696-716
VerifyOnchainHash ==
    /\ handle = "BlockchainLogger"
    /\ response = NoResponse
    /\ \E index \in 0..Len(ledger), local \in Locals, read_ok \in BOOLEAN :
        LET v == IF is_mock THEN VerifyMock(local)
                 ELSE VerifyReal(index, local, read_ok)
        IN response' = [op |-> "verify_onchain_hash", status |-> v.status,
                        result |-> v.result, index |-> index, local |-> local,
                        read_ok |-> read_ok]
    /\ ObserverFrame

\* the four values hashed
Values(r, scaled, mh, ts) ==
    [round_number |-> r, accuracy_scaled |-> scaled, model_hash |-> mh, timestamp |-> ts]

\* dicts holding the four values under their keys: in the order _send_tx
\* writes them, in another order, and with keys before and after that the
\* hash does not name
DictsOf(v) ==
    LET r == <<"round_number", v.round_number>>
        a == <<"accuracy_scaled", v.accuracy_scaled>>
        m == <<"model_hash", v.model_hash>>
        t == <<"timestamp", v.timestamp>>
        x == <<"accuracy", 0>>
        y == <<"retries", 3>>
    IN {<<r, a, m, t>>, <<t, m, a, r>>, <<m, r, t, a>>,
        <<x, r, a, m, t>>, <<t, y, m, a, x, r>>}

\* a caller computing the hash of a dict, lines 718-734
ComputeMetadataHash ==
    /\ handle = "BlockchainLogger"
    /\ response = NoResponse
    /\ \E r \in {1, 2}, scaled \in {5699, GoodAccuracy.e4}, mh \in {GoodHash, OtherHash} :
        \E metadata \in DictsOf(Values(r, scaled, mh, StartTime)) :
            response' = [op |-> "compute_metadata_hash_static",
                         status |-> "returned",
                         values |-> Values(r, scaled, mh, StartTime),
                         keys |-> [i \in DOMAIN metadata |-> metadata[i][1]],
                         result |-> ComputeMetadataHashStatic(metadata)]
    /\ ObserverFrame

\* BlockchainLogger(strict=False) with the node up, the node down, or without
\* the web3 package
InitObs ==
    /\ \E e \in {LocalNode, NodeDown, NoWeb3} :
        /\ env = e
        /\ ctor = Direct(FALSE, TRUE)
        /\ handle = Obtain(e, Direct(FALSE, TRUE)).handle
        /\ is_mock = Obtain(e, Direct(FALSE, TRUE)).is_mock
        /\ worker_pc = Obtain(e, Direct(FALSE, TRUE)).worker_pc
        /\ worker_threads = WorkerThreads(Obtain(e, Direct(FALSE, TRUE)))
        /\ fn_names = FnNames(e, Obtain(e, Direct(FALSE, TRUE)))
    /\ FreshFields
    /\ NoCaller

NextObs ==
    \/ ObsProducer
    \/ Stop
    \/ Worker
    \/ LedgerMine
    \/ Flush
    \/ HealthCheck
    \/ VerifyOnchainHash
    \/ ComputeMetadataHash

SpecObs == InitObs /\ [][NextObs]_vars

-----------------------------------------------------------------------------
(* Properties of the observed logger (SpecObs) *)

\* the step submits a transaction
Submits == Len(txs') = Len(txs) + 1

\* the step is the one look of the caller, through method op
Observes(op) == response = NoResponse /\ response' # NoResponse /\ response'.op = op

\* where the life of an item ends
Terminal == {"confirmed", "reverted", "exhausted", "skipped", "raised"}

\* C22: the integer submitted to the ledger for an item, and the one in the
\* hashed metadata, is the item's accuracy times 10000 rounded to the nearest
\* integer.
C22_ScaledIsRounded ==
    [][Submits
       => LET tx == txs'[Len(txs')]
          IN /\ LogEntry(tx.metadata).accuracy = cur.accuracy
             /\ Lookup(LogEntry(tx.metadata).metadata_hash.sha256, "accuracy_scaled")
                  = cur.accuracy
      ]_vars

\* C23: the digest of a dict is the hash of its four values written in the
\* order of the sorted keys, whatever the order of the keys in the dict, the
\* other keys in it and the state of the logger.
C23_HashOfFourFields ==
    [][Observes("compute_metadata_hash_static")
       => response'.result
            = Sha256(<<<<"accuracy_scaled", response'.values.accuracy_scaled>>,
                       <<"model_hash", response'.values.model_hash>>,
                       <<"round_number", response'.values.round_number>>,
                       <<"timestamp", response'.values.timestamp>>>>)
      ]_vars

\* a dict with other keys, its four keys in another order than the sorted one,
\* hashed while the worker is sending
C23_Witness ==
    /\ response.op = "compute_metadata_hash_static"
    /\ Len(response.keys) = 6
    /\ response.keys[1] = "timestamp"
    /\ txs # <<>>
    /\ ~is_mock

\* the item whose transaction wrote entry i of the ledger
ItemAt(i) ==
    LET tx == txs[CHOOSE j \in DOMAIN txs : txs[j].metadata = ledger[i]]
    IN [round_number |-> tx.round_number, accuracy |-> tx.accuracy,
        model_hash |-> tx.metadata.model_hash, timestamp |-> tx.metadata.timestamp]

\* C24: verify_onchain_hash never raises; for a ledger entry it can read it
\* returns true for the values of the item committed there and false when one
\* of the four values is another.
C24_CommitVerifyRoundTrip ==
    [][Observes("verify_onchain_hash")
       => /\ response'.status = "returned"
          /\ (response'.read_ok /\ response'.index < Len(ledger))
             => LET it == ItemAt(response'.index + 1)
                IN response'.result
                     = (response'.local = Local(it.round_number, it.accuracy,
                                                it.model_hash, it.timestamp))
      ]_vars

\* C25: when flush returns because it found the queue empty, every item
\* enqueued so far has reached the end of its life.
C25_FlushWaitsForDrain ==
    [][(Observes("flush") /\ response'.status = "drained")
       => \A id \in 1..ItemsMade : outcome[id] \in Terminal]_vars

\* C26: health_check returns, with is_mock, queue_size the number of items
\* waiting in the queue, logged_rounds_count the size of logged_rounds, and
\* connected false when the probe raises, returns false or there is no
\* connection object; the call changes nothing of the logger.
C26_HealthSnapshot ==
    [][Observes("health_check")
       => /\ response'.status = "returned"
          /\ response'.result.is_mock = is_mock
          /\ response'.result.queue_size = Len(queue)
          /\ response'.result.logged_rounds_count = Cardinality(logged_rounds)
          /\ (response'.probe # "true" \/ ~env.web3) => ~response'.result.connected
          /\ UNCHANGED <<handle, is_mock, queue, logged_rounds, stop_worker, worker_pc,
                         cur, attempt, backoff, txs, ledger, mock_logs, mock_audit_logs>>
      ]_vars

\* a snapshot taken in real mode while the worker holds the only item, after
\* an earlier attempt
C26_Witness ==
    /\ response.op = "health_check"
    /\ ~response.result.is_mock
    /\ response.result.queue_size = 0
    /\ response.result.connected
    /\ cur # NoItem
    /\ attempt = 2

-----------------------------------------------------------------------------
(* Properties of the worker's schedule (Spec) *)

\* the step is an attempt ending in an exception: a call of _send_tx raising,
\* or the receipt wait raising
AttemptRaises ==
    \/ worker_pc = "send" /\ worker_pc' \notin {"send", "receipt"}
    \/ /\ worker_pc = "receipt"
       /\ worker_pc' # "receipt"
       /\ txs'[Len(txs)].status = "timed_out"

\* C27: when _send_tx runs and its pre-check reads a ledger whose last entry
\* has the round of the item, no transaction is submitted and the round is in
\* logged_rounds afterwards.
C27_OnChainDuplicateSkipped ==
    [][((\E sent \in BOOLEAN : SendTx(TRUE, sent))
        /\ ledger # <<>>
        /\ OnChain(Len(ledger)).round_number = cur.round_number)
       => (txs' = txs /\ cur.round_number \in logged_rounds')]_vars

C29_FifoProcessing ==
    /\ \A i, j \in DOMAIN queue : i < j => queue[i].id < queue[j].id
    /\ \A i, j \in DOMAIN txs : i < j => txs[i].id <= txs[j].id
    /\ cur # NoItem
       => \A id \in 1..ItemsMade :
            /\ id < cur.id => outcome[id] \in Terminal
            /\ id > cur.id => outcome[id] = "queued"

\* the second item is being sent after the first one used up its attempts
C29_Witness ==
    /\ cur # NoItem
    /\ cur.id = 2
    /\ outcome[1] = "exhausted"
    /\ Len(txs) > retry_attempts

-----------------------------------------------------------------------------
(* The worker thread scheduled, every call to the node returning or raising *)

\* the thread started at line 489 keeps running: queue.get returns or times
\* out, time.sleep returns, and each call of _send_tx and each receipt wait
\* returns or raises
WorkerRuns == WF_vars(Worker)

SpecLive == Init /\ [][Next]_vars /\ WorkerRuns

\* where the worker is with the item it holds
Sending == worker_pc \in {"send", "receipt"}
RetryWait == worker_pc = "backoff"

\* the steps of the life of item id: accepted and waiting, taken by the worker,
\* sent, waiting for the next attempt, and its end, after which nothing of it
\* changes
LifeStep(id) ==
    /\ outcome'[id] # outcome[id]
       => \/ outcome[id] = "none" /\ outcome'[id] = "queued" /\ id = ItemsMade + 1
          \/ outcome[id] = "queued" /\ outcome'[id] = "active" /\ cur' = queue[1]
          \/ /\ outcome[id] = "active"
             /\ cur.id = id
             /\ cur' = NoItem
             /\ worker_pc' = "loop"
             /\ \/ outcome'[id] = "skipped" /\ worker_pc = "process"
                \/ outcome'[id] \in {"confirmed", "reverted"} /\ worker_pc = "receipt"
                \/ outcome'[id] = "exhausted" /\ Sending /\ attempt = retry_attempts
                \/ outcome'[id] = "raised" /\ RetryWait
    /\ (outcome[id] = "active" /\ outcome'[id] = "active" /\ worker_pc' # worker_pc)
       => \/ worker_pc = "process" /\ worker_pc' = "send"
          \/ worker_pc = "send" /\ worker_pc' \in {"receipt", "backoff"}
          \/ worker_pc = "receipt" /\ worker_pc' = "backoff"
          \/ worker_pc = "backoff" /\ worker_pc' = "send"
    /\ outcome[id] = "active" => cur.id = id
    /\ outcome[id] \in Terminal
       => /\ outcome'[id] = outcome[id]
          /\ cur'.id # id
          /\ \A i \in DOMAIN queue' : queue'[i].id # id

-----------------------------------------------------------------------------
(* Properties of stop and of logged_rounds (Spec) *)

\* C31: once stop() has set the event, the worker takes no item from the
\* queue any more and the items waiting stay where they are; stop() in mock
\* mode and a second stop() change nothing.
C31_StopSemantics ==
    [][/\ stop_worker
          => /\ cur = NoItem => cur' = NoItem
             /\ Len(queue') >= Len(queue)
             /\ \A i \in DOMAIN queue : queue'[i] = queue[i]
       /\ (Stop /\ (is_mock \/ stop_worker)) => UNCHANGED vars
      ]_vars

-----------------------------------------------------------------------------
(* Starting the worker thread (SpecWorker) *)

\* a test of is_alive() that never finds the thread alive
IsAliveNever == FALSE

\* line 484: self._worker_thread and self._worker_thread.is_alive()
IsAlive == worker_pc \notin {"none", "exited"}

\* BlockchainLogger._start_worker, lines 480-491
StartWorker ==
    /\ handle = "BlockchainLogger"
    /\ IF is_mock \/ IsAlive
       THEN /\ UNCHANGED <<stop_worker, worker_pc, worker_threads>>
            /\ response' = [NoResponse EXCEPT !.op = "_start_worker", !.status = "returned"]
       ELSE /\ stop_worker' = FALSE
            /\ worker_pc' = "loop"
            /\ worker_threads' = worker_threads + 1
            /\ response' = [NoResponse EXCEPT !.op = "_start_worker", !.status = "started"]
    /\ UNCHANGED <<env, ctor, handle, is_mock, queue, logged_rounds, cur, attempt, backoff,
                   precheck_hit, txs, ledger, mock_logs, mock_audit_logs, calls, enqueued,
                   outcome, now, audit_last_logged, throttle_history, is_training, ops,
                   training_logs, fl_calls, eligVars, fn_names, runs,
                api_training_logs>>

NextWorker ==
    \/ ObsProducer
    \/ Stop
    \/ Worker
    \/ LedgerMine
    \/ StartWorker

SpecWorker == InitObs /\ [][NextWorker]_vars

\* C32: a logger never has more than one worker thread alive, and it has one
\* only if its initialization succeeded (never in mock mode).
C32_SingleConsumer ==
    /\ worker_threads <= 1
    /\ worker_threads > 0 => ~is_mock /\ InitError(env) = ""

\* _start_worker was called while the thread was alive and started nothing
C32_Witness ==
    /\ response.op = "_start_worker"
    /\ response.status = "returned"
    /\ ~is_mock
    /\ worker_threads = 1
    /\ cur # NoItem

-----------------------------------------------------------------------------
(* The contract interface the logger adopted (SpecAbi) *)

\* lines 389-451: log_fn, get_log_fn and get_count_fn of the candidates, in the
\* order _get_contract tries them
candidates == << <<"logTrainingRound", "getLog", "getLogCount">>,
                 <<"addTrainingLog", "getTrainingLog", "getLogCount">>,
                 <<"logTrainingRound", "getTrainingLog", "getLogCount">> >>

Unbound == <<"", "", "">>

\* lines 468-470: _log_fn_name, _get_log_fn_name, _get_count_fn_name
BoundNames == IF fn_names = 0 THEN Unbound ELSE candidates[fn_names]

\* a configured node whose contract answers the probe of any of the candidates
AbiEnvs == {[LocalNode EXCEPT !.callable = c] : c \in SUBSET (1..3)}

\* BlockchainLogger(...) against such a node, strict or falling back
InitAbi ==
    /\ \E e \in AbiEnvs, c \in {Direct(FALSE, TRUE), Direct(TRUE, FALSE)} :
        /\ env = e
        /\ ctor = c
        /\ handle = Obtain(e, c).handle
        /\ is_mock = Obtain(e, c).is_mock
        /\ worker_pc = Obtain(e, c).worker_pc
        /\ worker_threads = WorkerThreads(Obtain(e, c))
        /\ fn_names = FnNames(e, Obtain(e, c))
    /\ FreshFields
    /\ NoCaller

SpecAbi == InitAbi /\ [][NextWorker]_vars

\* the probe of candidate i succeeded and that of every candidate before it failed
FirstCallable(i) == i \in env.callable /\ \A j \in 1..(i - 1) : j \notin env.callable

\* C33: at every moment of a connected logger's life the names it uses are those
\* of the first candidate, in the fixed order, whose probe succeeded; when no
\* probe succeeds no name is bound and the initialization has failed with a
\* configuration error.
C33_FirstCallableCandidate ==
    handle # "none" =>
        IF env.callable = {}
        THEN /\ BoundNames = Unbound
             /\ InitError(env) = "contract ABI mismatch"
             /\ handle = "raised" \/ is_mock
        ELSE /\ handle = "BlockchainLogger" /\ ~is_mock
             /\ \E i \in 1..3 : FirstCallable(i) /\ BoundNames = candidates[i]

\* the first probe failed, a later one succeeded, and the logger has worked since
C33_Witness ==
    /\ env.callable = {2, 3}
    /\ BoundNames = <<"addTrainingLog", "getTrainingLog", "getLogCount">>
    /\ Len(ledger) > 0

-----------------------------------------------------------------------------
(* Properties of logged_rounds under interleaving (Spec) *)

\* the ledger entries that carry round r
EntriesOfRound(r) == {k \in DOMAIN ledger : OnChain(k).round_number = r}

\* C34: however the producers' calls and the worker's steps interleave, the
\* test of logged_rounds and the later add let no round be committed twice:
\* the ledger never holds two entries of one round.
C34_RoundCommittedOnce ==
    \A r \in Rounds : Cardinality(EntriesOfRound(r)) <= 1

-----------------------------------------------------------------------------
(* The audit trail of MockBlockchainLogger (SpecMock) *)

\* log_event calls made in one behaviour
MaxEvents == 3

\* actions the callers of log_event pass
EventActions == {"USER_LOGIN", "DATA_UPLOAD"}

\* the calls of enqueue_training_metadata: a round, and a call whose accuracy
\* is no number
MockArgs == {Call(1, GoodAccuracy, GoodHash), Call(1, NotANumber, GoodHash)}

\* a list handed back in insertion order
InsertionOrder(list) == list

\* line 213: list(reversed(self._audit_logs))
Reversed(list) == [i \in 1..Len(list) |-> list[Len(list) + 1 - i]]

\* what the calls on the mock leave alone besides the lists and response
MockFrame ==
    UNCHANGED <<env, ctor, handle, is_mock, queue, logged_rounds, stop_worker, worker_pc,
                cur, attempt, backoff, precheck_hit, txs, ledger, enqueued, outcome, now,
                audit_last_logged, throttle_history, is_training, ops, training_logs,
                fl_calls, eligVars, runVars>>

\* MockBlockchainLogger.log_event, lines 164-182
LogEvent ==
    /\ handle = "MockBlockchainLogger"
    /\ Len(mock_audit_logs) < MaxEvents
    /\ \E action \in EventActions :
        /\ mock_audit_logs' = Append(mock_audit_logs, AuditEntry(action, now))
        /\ response' = [op |-> "log_event", status |-> "returned", action |-> action]
    /\ UNCHANGED <<mock_logs, calls>>
    /\ MockFrame

\* MockBlockchainLogger.enqueue_training_metadata, lines 132-162, and what it returned
MockEnqueueTrainingMetadata ==
    /\ handle = "MockBlockchainLogger"
    /\ \E a \in MockArgs :
        /\ EnqueueCall(a)
        /\ response' = [op |-> "enqueue_training_metadata", status |-> "returned",
                        result |-> Returns(a)]
    /\ UNCHANGED <<now, audit_last_logged, throttle_history, is_training, ops,
                   training_logs, fl_calls, eligVars, runVars>>

\* MockBlockchainLogger.get_audit_logs, lines 210-213
GetAuditLogs ==
    /\ handle = "MockBlockchainLogger"
    /\ response' = [op |-> "get_audit_logs", status |-> "returned",
                    result |-> Reversed(mock_audit_logs)]
    /\ UNCHANGED <<mock_logs, mock_audit_logs, calls>>
    /\ MockFrame

\* get_safe_blockchain_logger(strict=False) with the node down
InitMock ==
    /\ env = NodeDown
    /\ ctor = Factory(FALSE)
    /\ handle = Obtain(NodeDown, Factory(FALSE)).handle
    /\ is_mock = Obtain(NodeDown, Factory(FALSE)).is_mock
    /\ worker_pc = Obtain(NodeDown, Factory(FALSE)).worker_pc
    /\ worker_threads = WorkerThreads(Obtain(NodeDown, Factory(FALSE)))
    /\ fn_names = FnNames(NodeDown, Obtain(NodeDown, Factory(FALSE)))
    /\ FreshFields
    /\ NoCaller

NextMock ==
    \/ Tick
    \/ LogEvent
    \/ MockEnqueueTrainingMetadata
    \/ GetAuditLogs

SpecMock == InitMock /\ [][NextMock]_vars

\* the step appended one entry, with an action and the time of the call, and
\* left the older entries as they were
AppendedOne ==
    /\ Len(mock_audit_logs') = Len(mock_audit_logs) + 1
    /\ \A i \in DOMAIN mock_audit_logs : mock_audit_logs'[i] = mock_audit_logs[i]
    /\ mock_audit_logs'[Len(mock_audit_logs')].action # ""
    /\ mock_audit_logs'[Len(mock_audit_logs')].timestamp = now

\* the list is the audit trail read from its newest entry to its oldest
NewestFirst(list) ==
    /\ Len(list) = Len(mock_audit_logs)
    /\ \A i \in DOMAIN list : \A j \in DOMAIN list :
           i < j => \E m, n \in DOMAIN mock_audit_logs :
                        m > n /\ list[i] = mock_audit_logs[m] /\ list[j] = mock_audit_logs[n]

AuditCap == 2

\* C36: the audit entries held in memory never exceed a fixed cap (when the
\* cap is reached the oldest entry gives way to the new one).
C36_AuditCacheCapped == Len(mock_audit_logs) <= AuditCap

-----------------------------------------------------------------------------
(* The parameters built from a population (SpecParams) *)

\* patients in a population
MaxPatients == 3

\* a stored patient with its comorbidities field
WithComorbidities(p, c) ==
    [k \in DOMAIN p \cup {"comorbidities"} |-> IF k = "comorbidities" THEN c ELSE p[k]]

\* the kinds of patient: body-mass indexes with one and with two decimals,
\* token lists that share tokens, repeat one, are empty or are no list
ParamPatients ==
    {WithComorbidities(Young, TokenList(<<"Hypertension", "Obesity", "Anemia">>)),
     WithComorbidities(Old, TokenList(<<"Arthritis", "Migraine", "Gout">>)),
     WithComorbidities(Blank, TokenList(<<"Asthma", "Hypertension">>)),
     WithComorbidities(Stored(Id("PT-", <<8>>), "Gus", "H1", "Diabetes", 41, "Male", "A+",
                              2600, "II"), TokenList(<<"Gout", "Asthma">>)),
     WithComorbidities(Stored(Id("PT-", <<9>>), "Hal", "H2", "Diabetes", 52, "Female", "O-",
                              3055, "III"), TokenList(<<"Obesity", "Obesity">>)),
     WithComorbidities(Other, TokenList(<<"Hypertension", "Obesity", "Anemia">>)),
     WithComorbidities(Aged, NoList),
     Young}

ParamRequests ==
    [all_patients : UNION {[1..n -> ParamPatients] : n \in 0..MaxPatients},
     disease : {"Diabetes", "Asthma"}]

\* one call of _build_trial_params_for_disease
BuildTrialParamsCall ==
    /\ elig_request # NoRequest
    /\ elig_result = NoRequest
    /\ elig_result' = BuildTrialParams(elig_request.all_patients, elig_request.disease)
    /\ UNCHANGED <<env, ctor, handle, is_mock, queue, logged_rounds, stop_worker,
                   worker_pc, cur, attempt, backoff, precheck_hit, txs, ledger, mock_logs,
                   mock_audit_logs, calls, enqueued, outcome, appVars, elig_request, runVars>>

InitParams ==
    /\ env = NodeDown
    /\ ctor = Factory(FALSE)
    /\ handle = Obtain(NodeDown, Factory(FALSE)).handle
    /\ is_mock = Obtain(NodeDown, Factory(FALSE)).is_mock
    /\ worker_pc = Obtain(NodeDown, Factory(FALSE)).worker_pc
    /\ worker_threads = WorkerThreads(Obtain(NodeDown, Factory(FALSE)))
    /\ fn_names = FnNames(NodeDown, Obtain(NodeDown, Factory(FALSE)))
    /\ FreshFields
    /\ AppFresh
    /\ elig_request \in ParamRequests
    /\ elig_result = NoRequest

NextParams == BuildTrialParamsCall

SpecParams == InitParams /\ [][NextParams]_vars

\* the patients of the request that have the disease asked for
GroupOf(req) ==
    {i \in DOMAIN req.all_patients : Get(req.all_patients[i], "disease", "") = req.disease}

\* the tokens on the records of the group, a record's tokens in their order
TokensAt(req, i) ==
    LET c == Get(req.all_patients[i], "comorbidities", TokenList(<<>>))
    IN IF c.is_list THEN c.tokens ELSE <<>>

\* how many times the token stands on the records of the group
Frequency(req, t) ==
    LET RECURSIVE Sum(_)
        Sum(S) == IF S = {} THEN 0
                  ELSE LET i == CHOOSE x \in S : TRUE
                       IN Cardinality({k \in DOMAIN TokensAt(req, i) : TokensAt(req, i)[k] = t})
                          + Sum(S \ {i})
    IN Sum(GroupOf(req))

\* where the token first stands: the patient, then the place in the patient's list
FirstSeen(req, t) ==
    LET i == SetMin({j \in GroupOf(req) : \E k \in DOMAIN TokensAt(req, j) : TokensAt(req, j)[k] = t})
        k == SetMin({n \in DOMAIN TokensAt(req, i) : TokensAt(req, i)[n] = t})
    IN <<i, k>>

Earlier(a, b) == a[1] < b[1] \/ (a[1] = b[1] /\ a[2] < b[2])

\* the tokens on the records of the group
TokensOf(req) ==
    UNION {{TokensAt(req, i)[k] : k \in DOMAIN TokensAt(req, i)} : i \in GroupOf(req)}

\* C37: the parameters hold at most 5 comorbidity tokens, each of them on a
\* record of the disease, none twice, in the order of non-increasing
\* frequency with equally frequent tokens in the order of their first
\* occurrence in the population; a token left out is no more frequent than any
\* token returned, and none is left out while fewer than 5 are returned.
C37_TopComorbidities ==
    elig_result # NoRequest =>
        LET top == elig_result.commonComorbidities
            req == elig_request
        IN /\ Len(top) <= 5
           /\ \A i \in DOMAIN top : top[i] \in TokensOf(req)
           /\ \A i, j \in DOMAIN top :
                i < j => \/ Frequency(req, top[i]) > Frequency(req, top[j])
                         \/ /\ Frequency(req, top[i]) = Frequency(req, top[j])
                            /\ Earlier(FirstSeen(req, top[i]), FirstSeen(req, top[j]))
           /\ \A t \in TokensOf(req) :
                (\A i \in DOMAIN top : top[i] # t)
                    => /\ Len(top) = 5
                       /\ \A i \in DOMAIN top : Frequency(req, t) <= Frequency(req, top[i])

\* seven tokens on the records, one of them twice: five returned, the one seen
\* twice first, then the equally frequent ones as they first occurred
C37_Witness ==
    /\ elig_result # NoRequest
    /\ elig_result.commonComorbidities
         = <<"Hypertension", "Obesity", "Anemia", "Arthritis", "Migraine">>
    /\ Cardinality(TokensOf(elig_request)) = 7

\* C38: every patient of the population that has the disease is eligible
\* against the parameters built from that population for that disease, the
\* patients with the smallest and the largest body-mass index included.
C38_EnvelopeContainsPopulation ==
    elig_result # NoRequest =>
        \A i \in GroupOf(elig_request) :
            ComputeEligibility(elig_request.all_patients[i], elig_result)

-----------------------------------------------------------------------------
(* What logged_rounds records (Spec) *)

\* the step ends the processing of the item the worker holds as reverted or
\* as exhausted
EndsUncommitted ==
    /\ cur # NoItem
    /\ cur' = NoItem
    /\ outcome'[cur.id] \in {"reverted", "exhausted"}

\* the step adds round r for a reason the code has: the worker's transaction
\* for r was confirmed with status 1, or the pre-check read r as the ledger's
\* last entry
AddedForCause(r) ==
    /\ cur # NoItem
    /\ cur.round_number = r
    /\ \/ /\ worker_pc = "receipt"
          /\ txs'[Len(txs')].round_number = r
          /\ txs'[Len(txs')].status = "success"
       \/ /\ worker_pc = "send"
          /\ OnChainDuplicate(r, TRUE)

-----------------------------------------------------------------------------
(* Training runs (SpecTrain) *)

\* requests to the three training endpoints in one behaviour
MaxRequests == 3

\* request.get("num_rounds", 10), small
NumRounds == {1, 2}

Run(pc, round_num, num_rounds) == [pc |-> pc, round_num |-> round_num, num_rounds |-> num_rounds]

\* the thread has not left run_training_simulation
Executing(i) == runs[i].pc # "done"

\* start_training, lines 791-870, with the thread it starts
StartTrainingRun ==
    /\ ops < MaxRequests
    /\ ops' = ops + 1
    /\ IF is_training
       THEN /\ AuditCall("start_training", "400", "", "", NoCooldown, "none", FALSE)
            /\ UNCHANGED <<is_training, runs>>
       ELSE /\ \E fault \in BOOLEAN :
                 AuditCall("start_training", "200", "TRAINING_STARTED", "TRAINING_STARTED",
                           NoCooldown, "guarded", fault)
            /\ is_training' = TRUE
            /\ \E num_rounds \in NumRounds : runs' = Append(runs, Run("start", 0, num_rounds))
    /\ UNCHANGED api_training_logs

\* stop_training, lines 872-876
StopTrainingRun ==
    /\ ops < MaxRequests
    /\ ops' = ops + 1
    /\ AuditCall("stop_training", "200", "", "", NoCooldown, "none", FALSE)
    /\ is_training' = FALSE
    /\ UNCHANGED <<runs, api_training_logs>>

\* reset_training, lines 878-887
ResetTraining ==
    /\ ops < MaxRequests
    /\ ops' = ops + 1
    /\ AuditCall("reset_training", "200", "", "", NoCooldown, "none", FALSE)
    /\ is_training' = FALSE
    /\ api_training_logs' = <<>>
    /\ UNCHANGED runs

\* what a step of a training thread leaves alone besides the logger's lists
SimulationFrame ==
    UNCHANGED <<now, audit_last_logged, throttle_history, response, ops, training_logs,
                fl_calls, eligVars, worker_threads, fn_names>>

LoggerFrame ==
    UNCHANGED <<env, ctor, handle, is_mock, queue, logged_rounds, stop_worker, worker_pc,
                cur, attempt, backoff, precheck_hit, txs, ledger, mock_logs, mock_audit_logs,
                calls, enqueued, outcome>>

\* lines 821-822: training_logs = [] and the first value of the loop
SimulationBegins(i) ==
    /\ runs[i].pc = "start"
    /\ api_training_logs' = <<>>
    /\ runs' = [runs EXCEPT ![i] = Run("round", 1, @.num_rounds)]
    /\ UNCHANGED is_training
    /\ LoggerFrame /\ SimulationFrame

\* lines 823-857: the round is logged and enqueued, then the thread sleeps
SimulationRound(i) ==
    /\ runs[i].pc = "round"
    /\ api_training_logs' = Append(api_training_logs, runs[i].round_num)
    /\ EnqueueCall(Call(runs[i].round_num, GoodAccuracy, GoodHash))
    /\ runs' = [runs EXCEPT ![i].pc = "sleep"]
    /\ UNCHANGED is_training
    /\ SimulationFrame

\* lines 857-859 and 822: the sleep is over; the loop breaks when is_training
\* is false and ends after the last round
SimulationWakes(i) ==
    /\ runs[i].pc = "sleep"
    /\ runs' = [runs EXCEPT ![i] =
                  IF ~is_training \/ @.round_num = @.num_rounds
                  THEN Run("finally", @.round_num, @.num_rounds)
                  ELSE Run("round", @.round_num + 1, @.num_rounds)]
    /\ UNCHANGED <<is_training, api_training_logs>>
    /\ LoggerFrame /\ SimulationFrame

\* lines 864-865: finally: is_training = False
SimulationEnds(i) ==
    /\ runs[i].pc = "finally"
    /\ is_training' = FALSE
    /\ runs' = [runs EXCEPT ![i].pc = "done"]
    /\ UNCHANGED api_training_logs
    /\ LoggerFrame /\ SimulationFrame

\* run_training_simulation, lines 809-865, in the thread of line 867
RunTrainingSimulation ==
    \E i \in DOMAIN runs :
        \/ SimulationBegins(i)
        \/ SimulationRound(i)
        \/ SimulationWakes(i)
        \/ SimulationEnds(i)

NextTrain ==
    \/ StartTrainingRun
    \/ StopTrainingRun
    \/ ResetTraining
    \/ RunTrainingSimulation

SpecTrain == InitApp /\ [][NextTrain]_vars

\* C40: however the requests to start, stop and reset the training interleave
\* with the training threads, at most one training simulation is executing.
C40_AtMostOneTrainingRun ==
    Cardinality({i \in DOMAIN runs : Executing(i)}) <= 1
====
